---- MODULE Spec2Model ----
(***************************************************************************)
(* The error-annotation chain of merry v2: annotation nodes, the wrapping  *)
(* pipeline (hooks, wrappers, automatic stack capture) and the traversal   *)
(* functions (Value, Values, HasStack, Stack, Cause, errors.Is/As).        *)
(*                                                                         *)
(* Errors live in a heap: nodes[i] is the i-th allocated error value.  A   *)
(* node is never rewritten.  An error reference is a record: the nil       *)
(* error, a heap node, or a shim, the temporary *errWithCause value that   *)
(* errWithCause.Unwrap allocates while a chain is being unwrapped.         *)
(***************************************************************************)
EXTENDS Integers, Sequences, FiniteSets, TLC

VARIABLES nodes, hooks, captureStacks, verbose, last, threads

vars == <<nodes, hooks, captureStacks, verbose, last, threads>>

\* ------------------------------------------------------------------ bounds
MaxNodes == 4

MaxHooks == 1

MaxCauseNodes == 5

MaxStackNodes == 4

MaxMsgNodes == 4

MaxV1Nodes == 4

MaxRootNodes == 6

MaxConcNodes == 3

NumReaders == 2

MaxRaceNodes == 4

\* -------------------------------------------------------------------- keys
errKeyStack == "stack"

errKeyMessage == "message"

errKeyHTTPCode == "http status code"

errKeyUserMessage == "user message"

errKeyFormattedStack == "formatted stack"

\* ------------------------------------------------------------------ values
\* An interface{} value: its dynamic type and its payload.
NilV == [t |-> "nil", s |-> <<>>, n |-> 0]

StrV(s) == [t |-> "string", s |-> s, n |-> 0]

IntV(n) == [t |-> "int", s |-> <<>>, n |-> n]

\* a []uintptr captured by runtime.Callers at call site n
StackV(n) == [t |-> "stack", s |-> <<>>, n |-> n]

\* -------------------------------------------------------- error references
Nil == [id |-> 0, shim |-> FALSE, cause |-> 0]

Ref(i) == [id |-> i, shim |-> FALSE, cause |-> 0]

\* &errWithCause{err: Ref(i), cause: Ref(c)} allocated by errWithCause.Unwrap
Shim(i, c) == [id |-> i, shim |-> TRUE, cause |-> c]

\* ------------------------------------------------------------------- nodes
\* errors.New(msg) or a *redError: a terminal error with no Unwrap method
PlainNode(typ, msg) ==
    [kind |-> "plain", typ |-> typ, err |-> 0, key |-> "", value |-> StrV(msg), cause |-> 0]

\* &UnwrapperError{err}: a foreign error that only has Error and Unwrap
ForeignNode(e) ==
    [kind |-> "foreign", typ |-> "UnwrapperError", err |-> e, key |-> "", value |-> NilV, cause |-> 0]

ValueNode(e, k, v) ==
    [kind |-> "value", typ |-> "errWithValue", err |-> e, key |-> k, value |-> v, cause |-> 0]

CauseNode(e, c) ==
    [kind |-> "cause", typ |-> "errWithCause", err |-> e, key |-> "", value |-> NilV, cause |-> c]

IsValueNode(h, e) == e.id > 0 /\ ~e.shim /\ h[e.id].kind = "value"

IsCauseNode(h, e) == e.shim \/ (e.id > 0 /\ h[e.id].kind = "cause")

\* the err field of an *errWithCause
CauseErr(h, e) == IF e.shim THEN Ref(e.id) ELSE Ref(h[e.id].err)

\* the cause field of an *errWithCause
CauseOf(h, e) == IF e.shim THEN Ref(e.cause) ELSE Ref(h[e.id].cause)

TypeOf(h, e) == IF e.shim THEN "errWithCause" ELSE h[e.id].typ

\* ----------------------------------------------------------------- Unwrap
RECURSIVE SkipCauses(_, _)
\* the loop of errWithCause.Unwrap: dig down to the first non-errWithCause
SkipCauses(h, e) ==
    IF IsCauseNode(h, e) THEN SkipCauses(h, CauseErr(h, e)) ELSE e

\* Unwrap of a value node, a foreign node or a terminal error
PlainUnwrap(h, e) ==
    IF e.id = 0 THEN Nil
    ELSE IF h[e.id].kind \in {"value", "foreign"} THEN Ref(h[e.id].err)
    ELSE Nil

\* errWithCause.Unwrap that carries along the cause of the errWithCause it skips
errWithCauseUnwrapInner(h, e) ==
    LET inner == CauseErr(h, e)
        cause == IF IsCauseNode(h, inner) THEN CauseOf(h, inner) ELSE CauseOf(h, e)
        nextErr == PlainUnwrap(h, SkipCauses(h, inner))
    IN  IF nextErr = Nil THEN cause
        ELSE Shim(nextErr.id, cause.id)

errWithCauseUnwrap(h, e) ==
    LET nextErr == PlainUnwrap(h, SkipCauses(h, CauseErr(h, e)))
    IN  IF nextErr = Nil THEN CauseOf(h, e)
        ELSE Shim(nextErr.id, CauseOf(h, e).id)

\* internal.Unwrap = errors.Unwrap
Unwrap(h, e) ==
    IF e = Nil THEN Nil
    ELSE IF IsCauseNode(h, e) THEN errWithCauseUnwrap(h, e)
    ELSE PlainUnwrap(h, e)

\* ------------------------------------------------------------------ queries
RECURSIVE Value(_, _, _)
Value(h, err, key) ==
    IF err = Nil THEN NilV
    ELSE IF IsValueNode(h, err)
         THEN IF h[err.id].key = key THEN h[err.id].value
              ELSE Value(h, Ref(h[err.id].err), key)
         ELSE Value(h, Unwrap(h, err), key)

RECURSIVE ValuesWalk(_, _, _)
\* the loop of Values; values is [made, m]: whether the map was allocated, and the map
ValuesWalk(h, err, values) ==
    IF err = Nil THEN values
    ELSE IF IsValueNode(h, err) /\ h[err.id].key \notin DOMAIN values.m
         THEN ValuesWalk(h, Unwrap(h, err),
                         [made |-> TRUE, m |-> (h[err.id].key :> h[err.id].value) @@ values.m])
         ELSE ValuesWalk(h, Unwrap(h, err), values)

Values(h, err) == ValuesWalk(h, err, [made |-> FALSE, m |-> <<>>])

\* Stack: the type assertion .([]uintptr) turns every other value into nil
Stack(h, err) ==
    LET v == Value(h, err, errKeyStack) IN IF v.t = "stack" THEN v ELSE NilV

HTTPCode(h, err) ==
    IF err = Nil THEN 200
    ELSE LET v == Value(h, err, errKeyHTTPCode)
             code == IF v.t = "int" THEN v.n ELSE 0
         IN  IF code = 0 THEN 500 ELSE code

UserMessage(h, err) ==
    LET v == Value(h, err, errKeyUserMessage) IN IF v.t = "string" THEN v.s ELSE <<>>

RECURSIVE HasStack(_, _)
HasStack(h, err) ==
    IF err = Nil THEN FALSE
    ELSE IF IsValueNode(h, err)
         THEN IF h[err.id].key \in {errKeyStack, errKeyFormattedStack} THEN TRUE
              ELSE HasStack(h, Ref(h[err.id].err))
         ELSE HasStack(h, Unwrap(h, err))

\* errWithCause.Is that does not compare the wrapped error with the target
errWithCauseIsNever(h, e, target) == FALSE

RECURSIVE errWithCauseIs(_, _, _)
errWithCauseIs(h, e, target) ==
    \/ CauseErr(h, e) = target
    \/ IsCauseNode(h, CauseErr(h, e)) /\ errWithCauseIs(h, CauseErr(h, e), target)

RECURSIVE Is(_, _, _)
\* errors.Is for a non-nil target
Is(h, err, target) ==
    IF err = Nil THEN FALSE
    ELSE IF err = target THEN TRUE
    ELSE IF IsCauseNode(h, err) /\ errWithCauseIs(h, err, target) THEN TRUE
    ELSE Is(h, Unwrap(h, err), target)

RECURSIVE errWithCauseAs(_, _, _)
\* errWithCause.As: the error the target is set to, or Nil when As returns false
errWithCauseAs(h, e, typ) ==
    IF TypeOf(h, CauseErr(h, e)) = typ THEN CauseErr(h, e)
    ELSE IF IsCauseNode(h, CauseErr(h, e)) THEN errWithCauseAs(h, CauseErr(h, e), typ)
    ELSE Nil

RECURSIVE As(_, _, _)
\* errors.As for a target of type *typ: the error found, or Nil when As returns false
As(h, err, typ) ==
    IF err = Nil THEN Nil
    ELSE IF TypeOf(h, err) = typ THEN err
    ELSE IF IsCauseNode(h, err) /\ errWithCauseAs(h, err, typ) # Nil
         THEN errWithCauseAs(h, err, typ)
    ELSE As(h, Unwrap(h, err), typ)

Cause(h, err) ==
    LET causer == As(h, err, "errWithCause")
    IN  IF causer # Nil THEN CauseOf(h, causer) ELSE Nil

RECURSIVE ErrorOfTerminal(_, _)
\* an Error() that never looks at the message key
ErrorOfTerminal(h, e) ==
    IF h[e.id].kind = "plain" THEN h[e.id].value.s
    ELSE ErrorOfTerminal(h, Ref(h[e.id].err))

RECURSIVE Error(_, _)
\* Error() of an error: a sequence of message tokens
Error(h, e) ==
    IF IsValueNode(h, e)
    THEN IF h[e.id].key = errKeyMessage /\ h[e.id].value.t = "string" THEN h[e.id].value.s
         ELSE Error(h, Ref(h[e.id].err))
    ELSE IF IsCauseNode(h, e) THEN Error(h, CauseErr(h, e))
    ELSE IF h[e.id].kind = "foreign" THEN Error(h, Ref(h[e.id].err))
    ELSE h[e.id].value.s

\* ---------------------------------------------------------------- wrappers
\* Set that writes the key and value into the node it is given
SetInPlace(h, err, key, value) ==
    IF err = Nil THEN [h |-> h, err |-> Nil]
    ELSE IF IsValueNode(h, err)
         THEN [h |-> [h EXCEPT ![err.id].key = key, ![err.id].value = value], err |-> err]
         ELSE [h |-> Append(h, ValueNode(err.id, key, value)), err |-> Ref(Len(h) + 1)]

\* a Set without its nil check
SetNoNilCheck(h, err, key, value) ==
    [h |-> Append(h, ValueNode(err.id, key, value)), err |-> Ref(Len(h) + 1)]

\* Set: a new node around err; the result is [h: the heap, err: the error returned]
Set(h, err, key, value) ==
    IF err = Nil THEN [h |-> h, err |-> Nil]
    ELSE [h |-> Append(h, ValueNode(err.id, key, value)), err |-> Ref(Len(h) + 1)]

\* captureStack that does not read the captureStacks flag
captureStackIgnoresSwitch(h, cap, err, force) ==
    IF err = Nil THEN [h |-> h, err |-> Nil]
    ELSE IF ~force /\ HasStack(h, err) THEN [h |-> h, err |-> err]
    ELSE Set(h, err, errKeyStack, StackV(Len(h) + 1))

\* captureStack that does not look for a stack already attached
captureStackAlways(h, cap, err, force) ==
    IF err = Nil THEN [h |-> h, err |-> Nil]
    ELSE IF ~force /\ ~cap THEN [h |-> h, err |-> err]
    ELSE [h |-> Append(h, ValueNode(err.id, errKeyStack, StackV(Len(h) + 1))),
          err |-> Ref(Len(h) + 1)]

\* captureStack; cap is the captureStacks flag.  The stack captured by the call that
\* allocates node n is StackV(n): every capture yields a stack of its own.
captureStack(h, cap, err, force) ==
    IF err = Nil THEN [h |-> h, err |-> Nil]
    ELSE IF ~force /\ (~cap \/ HasStack(h, err)) THEN [h |-> h, err |-> err]
    ELSE Set(h, err, errKeyStack, StackV(Len(h) + 1))

SetValue(key, value) == [w |-> "SetValue", key |-> key, value |-> value, cause |-> 0]

SetHTTPCode(statusCode) == SetValue(errKeyHTTPCode, IntV(statusCode))

NoCaptureStack == SetValue(errKeyStack, NilV)

ForceCaptureStack == [w |-> "ForceCaptureStack", key |-> "", value |-> NilV, cause |-> 0]

CaptureStack == [w |-> "CaptureStack", key |-> "", value |-> NilV, cause |-> 0]

\* the wrapper that attaches the error in node c as the cause
WithCause(c) == [w |-> "WithCause", key |-> "", value |-> NilV, cause |-> c]

WithCauseWrap(h, err, c) ==
    IF err = Nil THEN [h |-> h, err |-> Nil]
    ELSE [h |-> Append(h, CauseNode(err.id, c)), err |-> Ref(Len(h) + 1)]

PrependMessage(msg) == [w |-> "PrependMessage", key |-> "", value |-> StrV(msg), cause |-> 0]

AppendMessage(msg) == [w |-> "AppendMessage", key |-> "", value |-> StrV(msg), cause |-> 0]

\* the wrapper function of PrependMessage(msg)
PrependMessageWrap(h, err, msg) ==
    IF err = Nil \/ Len(msg) = 0 THEN [h |-> h, err |-> err]
    ELSE Set(h, err, errKeyMessage, StrV(msg \o <<": ">> \o Error(h, err)))

\* an AppendMessage that puts the new text first
AppendMessageWrapInFront(h, err, msg) ==
    IF err = Nil \/ Len(msg) = 0 THEN [h |-> h, err |-> err]
    ELSE Set(h, err, errKeyMessage, StrV(msg \o <<": ">> \o Error(h, err)))

\* the wrapper function of AppendMessage(msg)
AppendMessageWrap(h, err, msg) ==
    IF err = Nil \/ Len(msg) = 0 THEN [h |-> h, err |-> err]
    ELSE Set(h, err, errKeyMessage, StrV(Error(h, err) \o <<": ">> \o msg))

\* Wrapper.Wrap(err, depth)
WrapperWrap(h, cap, w, err) ==
    CASE w.w = "SetValue" -> Set(h, err, w.key, w.value)
      [] w.w = "ForceCaptureStack" -> captureStack(h, cap, err, TRUE)
      [] w.w = "CaptureStack" -> captureStack(h, cap, err, cap)
      [] w.w = "WithCause" -> WithCauseWrap(h, err, w.cause)
      [] w.w = "PrependMessage" -> PrependMessageWrap(h, err, w.value.s)
      [] w.w = "AppendMessage" -> AppendMessageWrap(h, err, w.value.s)

RECURSIVE ApplyWrappers(_, _, _, _)
\* for _, w := range ws { err = w.Wrap(err, skip+1) }
ApplyWrappers(h, cap, ws, err) ==
    IF ws = <<>> THEN [h |-> h, err |-> err]
    ELSE LET r == WrapperWrap(h, cap, Head(ws), err)
         IN  ApplyWrappers(r.h, cap, Tail(ws), r.err)

\* apply that runs the caller's wrappers before the hooks
applyWrappersFirst(h, cap, hks, err, applyHooks, autocapture, ws) ==
    IF err = Nil THEN [h |-> h, err |-> Nil, calls |-> 0]
    ELSE LET a == ApplyWrappers(h, cap, ws, err)
             b == IF applyHooks THEN ApplyWrappers(a.h, cap, hks, a.err) ELSE a
             c == IF autocapture THEN captureStack(b.h, cap, b.err, FALSE) ELSE b
         IN  [h |-> c.h, err |-> c.err, calls |-> IF applyHooks THEN Len(hks) ELSE 0]

\* apply that never runs the hooks
applyNoHooks(h, cap, hks, err, applyHooks, autocapture, ws) ==
    IF err = Nil THEN [h |-> h, err |-> Nil, calls |-> 0]
    ELSE LET b == ApplyWrappers(h, cap, ws, err)
             c == IF autocapture THEN captureStack(b.h, cap, b.err, FALSE) ELSE b
         IN  [h |-> c.h, err |-> c.err, calls |-> 0]

\* apply without its nil check
applyNoNilCheck(h, cap, hks, err, applyHooks, autocapture, ws) ==
    LET a == IF applyHooks THEN ApplyWrappers(h, cap, hks, err)
             ELSE [h |-> h, err |-> err]
        b == ApplyWrappers(a.h, cap, ws, a.err)
        c == IF autocapture THEN captureStack(b.h, cap, b.err, FALSE) ELSE b
    IN  [h |-> c.h, err |-> c.err, calls |-> IF applyHooks THEN Len(hks) ELSE 0]

\* apply; the result also counts the hook invocations of the call
apply(h, cap, hks, err, applyHooks, autocapture, ws) ==
    IF err = Nil THEN [h |-> h, err |-> Nil, calls |-> 0]
    ELSE LET a == IF applyHooks THEN ApplyWrappers(h, cap, hks, err)
                  ELSE [h |-> h, err |-> err]
             b == ApplyWrappers(a.h, cap, ws, a.err)
             c == IF autocapture THEN captureStack(b.h, cap, b.err, FALSE) ELSE b
         IN  [h |-> c.h, err |-> c.err, calls |-> IF applyHooks THEN Len(hks) ELSE 0]

WrapSkipping(h, cap, hks, err, ws) == apply(h, cap, hks, err, TRUE, TRUE, ws)

\* ------------------------------------------------------------------ inputs
Colors == {StrV(<<"red">>), StrV(<<"blue">>)}

\* every wrapper of the library, for the heap h
AllWrappers(h) ==
    {SetValue("color", v) : v \in Colors}
        \cup {SetHTTPCode(404), NoCaptureStack, ForceCaptureStack, CaptureStack}
        \cup {WithCause(c) : c \in 1..Len(h)}

\* the wrappers a caller passes to Wrap and New when the heap is h
Wrappers(h) ==
    {SetValue("color", v) : v \in Colors} \cup {WithCause(c) : c \in 1..Len(h)}

WrapperLists(h) == {<<>>} \cup {<<w>> : w \in Wrappers(h)}

HookSet == {SetValue("color", StrV(<<"red">>))}

NoCall == [op |-> "none", in |-> 0, ws |-> <<>>, n0 |-> 0, out |-> 0, calls |-> 0]

\* the record of the latest call, kept until the next operation: its input, its
\* wrappers, the heap size before it, its result and the hook invocations it made
Call(op, in, ws, n0, out, calls) ==
    [op |-> op, in |-> in, ws |-> ws, n0 |-> n0, out |-> out, calls |-> calls]

\* ------------------------------------------------------------------- state
Init ==
    /\ nodes = <<>>
    /\ hooks = <<>>
    /\ captureStacks = TRUE
    /\ verbose = FALSE
    /\ last = NoCall
    /\ threads = <<>>

\* errors.New(msg) called by the user of the library
ErrorsNew ==
    /\ Len(nodes) < MaxNodes
    /\ nodes' = Append(nodes, PlainNode("errorString", <<"boom">>))
    /\ last' = NoCall
    /\ UNCHANGED <<threads, verbose, hooks, captureStacks>>

\* &UnwrapperError{err} made by the user of the library
Unwrapper ==
    \E e \in 1..Len(nodes) :
        /\ Len(nodes) < MaxNodes
        /\ nodes' = Append(nodes, ForeignNode(e))
        /\ last' = NoCall
        /\ UNCHANGED <<threads, verbose, hooks, captureStacks>>

\* Wrap(err, ws...)
DoWrap ==
    \E e \in 0..Len(nodes) : \E ws \in WrapperLists(nodes) :
        LET r == WrapSkipping(nodes, captureStacks, hooks, Ref(e), ws)
        IN  /\ Len(r.h) <= MaxNodes
            /\ nodes' = r.h
            /\ last' = Call("Wrap", e, ws, Len(nodes), r.err.id, r.calls)
            /\ UNCHANGED <<threads, verbose, hooks, captureStacks>>

\* New(msg, ws...) = WrapSkipping(errors.New(msg), 1, ws...)
DoNew ==
    \E ws \in WrapperLists(nodes) :
        LET h0 == Append(nodes, PlainNode("errorString", <<"boom">>))
            r == WrapSkipping(h0, captureStacks, hooks, Ref(Len(h0)), ws)
        IN  /\ Len(r.h) <= MaxNodes
            /\ nodes' = r.h
            /\ last' = Call("New", Len(h0), ws, Len(nodes), r.err.id, r.calls)
            /\ UNCHANGED <<threads, verbose, hooks, captureStacks>>

\* Set(err, key, value)
DoSet ==
    \E e \in 0..Len(nodes) : \E v \in Colors :
        LET r == Set(nodes, Ref(e), "color", v)
        IN  /\ Len(r.h) <= MaxNodes
            /\ nodes' = r.h
            /\ last' = Call("Set", e, <<SetValue("color", v)>>, Len(nodes), r.err.id, 0)
            /\ UNCHANGED <<threads, verbose, hooks, captureStacks>>

AddHooks ==
    \E hook \in HookSet :
        /\ Len(hooks) < MaxHooks
        /\ hooks' = Append(hooks, hook)
        /\ last' = [NoCall EXCEPT !.op = "AddHooks", !.ws = <<hook>>]
        /\ UNCHANGED <<threads, verbose, nodes, captureStacks>>

ClearHooks ==
    /\ hooks' = <<>>
    /\ last' = [NoCall EXCEPT !.op = "ClearHooks"]
    /\ UNCHANGED <<threads, verbose, nodes, captureStacks>>

\* StackCaptureEnabled()
StackCaptureEnabled == captureStacks

SetStackCaptureEnabled ==
    \E enabled \in BOOLEAN :
        /\ captureStacks' = enabled
        /\ last' = [NoCall EXCEPT !.op = "SetStackCaptureEnabled",
                                  !.in = IF enabled THEN 1 ELSE 0]
        /\ UNCHANGED <<threads, verbose, nodes, hooks>>

Next ==
    \/ ErrorsNew
    \/ Unwrapper
    \/ DoWrap
    \/ DoNew
    \/ DoSet
    \/ AddHooks
    \/ ClearHooks
    \/ SetStackCaptureEnabled

Spec == Init /\ [][Next]_vars

\* ------------------------------------------- causes: a smaller state, deeper
\* errors.New(msg), no larger than the bound of the cause specification
CauseErrorsNew ==
    /\ Len(nodes) < MaxCauseNodes
    /\ nodes' = Append(nodes, PlainNode("errorString", <<"boom">>))
    /\ UNCHANGED <<threads, verbose, hooks, captureStacks, last>>

\* &UnwrapperError{err}
CauseUnwrapper ==
    \E e \in 1..Len(nodes) :
        /\ Len(nodes) < MaxCauseNodes
        /\ nodes' = Append(nodes, ForeignNode(e))
        /\ UNCHANGED <<threads, verbose, hooks, captureStacks, last>>

\* Wrap(err, WithCause(cause))
WrapWithCause ==
    \E e \in 1..Len(nodes) : \E c \in 1..Len(nodes) :
        LET r == WrapSkipping(nodes, captureStacks, hooks, Ref(e), <<WithCause(c)>>)
        IN  /\ Len(r.h) <= MaxCauseNodes
            /\ nodes' = r.h
            /\ UNCHANGED <<threads, verbose, hooks, captureStacks, last>>

CauseSetStackCaptureEnabled ==
    \E enabled \in BOOLEAN :
        /\ captureStacks' = enabled
        /\ UNCHANGED <<threads, verbose, nodes, hooks, last>>

NextCause ==
    \/ CauseErrorsNew
    \/ CauseUnwrapper
    \/ WrapWithCause
    \/ CauseSetStackCaptureEnabled

SpecCause == Init /\ [][NextCause]_vars

\* ------------------------------------- stacks: the wrappers that govern capture
\* the wrappers a caller passes in the stack specification
StackWrappers(h) ==
    {NoCaptureStack, ForceCaptureStack, CaptureStack} \cup {WithCause(c) : c \in 1..Len(h)}

StackWrapperLists(h) == {<<>>} \cup {<<w>> : w \in StackWrappers(h)}

\* errors.New(msg), no larger than the bound of the stack specification
StackErrorsNew ==
    /\ Len(nodes) < MaxStackNodes
    /\ nodes' = Append(nodes, PlainNode("errorString", <<"boom">>))
    /\ last' = NoCall
    /\ UNCHANGED <<threads, verbose, hooks, captureStacks>>

\* Wrap(err, ws...) with the wrappers that govern capture
StackWrap ==
    \E e \in 1..Len(nodes) : \E ws \in StackWrapperLists(nodes) :
        LET r == WrapSkipping(nodes, captureStacks, hooks, Ref(e), ws)
        IN  /\ Len(r.h) <= MaxStackNodes
            /\ nodes' = r.h
            /\ last' = Call("Wrap", e, ws, Len(nodes), r.err.id, r.calls)
            /\ UNCHANGED <<threads, verbose, hooks, captureStacks>>

\* New(msg, ws...) with the wrappers that govern capture
StackNew ==
    \E ws \in StackWrapperLists(nodes) :
        LET h0 == Append(nodes, PlainNode("errorString", <<"boom">>))
            r == WrapSkipping(h0, captureStacks, hooks, Ref(Len(h0)), ws)
        IN  /\ Len(r.h) <= MaxStackNodes
            /\ nodes' = r.h
            /\ last' = Call("New", Len(h0), ws, Len(nodes), r.err.id, r.calls)
            /\ UNCHANGED <<threads, verbose, hooks, captureStacks>>

NextStack ==
    \/ StackErrorsNew
    \/ StackWrap
    \/ StackNew
    \/ SetStackCaptureEnabled

SpecStack == Init /\ [][NextStack]_vars

\* ---------------------------------- messages, codes: wrappers applied one by one
SetMessage(msg) == SetValue(errKeyMessage, StrV(msg))

SetUserMessage(msg) == SetValue(errKeyUserMessage, StrV(msg))

\* the wrappers of the message specification
MsgWrappers(h) ==
    {SetMessage(<<"red">>), SetMessage(<<"blue">>), SetUserMessage(<<"oops">>),
     SetValue(errKeyMessage, IntV(7)), SetHTTPCode(404), SetHTTPCode(0)}
        \cup {WithCause(c) : c \in 1..Len(h)}

\* errors.New(msg), no larger than the bound of the message specification
MsgErrorsNew ==
    /\ Len(nodes) < MaxMsgNodes
    /\ nodes' = Append(nodes, PlainNode("errorString", <<"boom">>))
    /\ UNCHANGED <<threads, verbose, hooks, captureStacks, last>>

\* &UnwrapperError{err}
MsgUnwrapper ==
    \E e \in 1..Len(nodes) :
        /\ Len(nodes) < MaxMsgNodes
        /\ nodes' = Append(nodes, ForeignNode(e))
        /\ UNCHANGED <<threads, verbose, hooks, captureStacks, last>>

\* w.Wrap(err, 0) for a wrapper w: no hooks, no stack capture
MsgWrapperWrap ==
    \E e \in 1..Len(nodes) : \E w \in MsgWrappers(nodes) :
        LET r == WrapperWrap(nodes, captureStacks, w, Ref(e))
        IN  /\ Len(r.h) <= MaxMsgNodes
            /\ nodes' = r.h
            /\ UNCHANGED <<threads, verbose, hooks, captureStacks, last>>

\* New(msg)
MsgNew ==
    LET h0 == Append(nodes, PlainNode("errorString", <<"boom">>))
        r == WrapSkipping(h0, captureStacks, hooks, Ref(Len(h0)), <<>>)
    IN  /\ Len(r.h) <= MaxMsgNodes
        /\ nodes' = r.h
        /\ UNCHANGED <<threads, verbose, hooks, captureStacks, last>>

NextMsg ==
    \/ MsgErrorsNew
    \/ MsgUnwrapper
    \/ MsgWrapperWrap
    \/ MsgNew

SpecMsg == Init /\ [][NextMsg]_vars

\* ------------------------------------------ the v1 API: merryErr and its queries
errKeyCause == "cause"

\* an error stored as an annotation's value
ErrV(i) == [t |-> "error", s |-> <<>>, n |-> i]

\* &merryErr{err, key, value}; key "" is the nil key of &merryErr{err: err}
MerryNode(e, k, v) ==
    [kind |-> "merry", typ |-> "merryErr", err |-> e, key |-> k, value |-> v, cause |-> 0]

RECURSIVE V1Value(_, _, _)
\* Value of the v1 API: only *merryErr nodes are walked
V1Value(h, e, key) ==
    IF e = 0 THEN NilV
    ELSE IF h[e].kind = "merry"
         THEN IF h[e].key = key THEN h[e].value ELSE V1Value(h, h[e].err, key)
    ELSE NilV

RECURSIVE V1Unwrap(_, _)
\* Unwrap of the v1 API: the innermost error that is not a *merryErr
V1Unwrap(h, e) ==
    IF e = 0 THEN 0
    ELSE IF h[e].kind = "merry" THEN V1Unwrap(h, h[e].err)
    ELSE e

V1Stack(h, e) ==
    LET v == V1Value(h, e, errKeyStack) IN IF v.t = "stack" THEN v ELSE NilV

V1HTTPCode(h, e) ==
    IF e = 0 THEN 200
    ELSE LET v == V1Value(h, e, errKeyHTTPCode)
             code == IF v.t = "int" THEN v.n ELSE 0
         IN  IF code = 0 THEN 500 ELSE code

V1UserMessage(h, e) ==
    IF e = 0 THEN <<>>
    ELSE LET v == V1Value(h, e, errKeyUserMessage) IN IF v.t = "string" THEN v.s ELSE <<>>

\* Message: the message annotation, or Error() of the innermost error
V1Message(h, e) ==
    IF e = 0 THEN <<>>
    ELSE LET v == V1Value(h, e, errKeyMessage)
             m == IF v.t = "string" THEN v.s ELSE <<>>
         IN  IF m = <<>> THEN h[V1Unwrap(h, e)].value.s ELSE m

V1Cause(h, e) ==
    IF e = 0 THEN 0
    ELSE LET v == V1Value(h, e, errKeyCause) IN IF v.t = "error" THEN v.n ELSE 0

\* a RootCause that follows only one Cause link
V1RootCauseOneStep(h, e) ==
    IF e = 0 THEN 0
    ELSE IF V1Cause(h, e) = 0 THEN e
    ELSE V1Cause(h, e)

RECURSIVE V1RootCause(_, _)
V1RootCause(h, e) ==
    IF e = 0 THEN 0
    ELSE IF V1Cause(h, e) = 0 THEN e
    ELSE V1RootCause(h, V1Cause(h, e))

\* the frames of a stack, as printed: function name, file and line of each frame
Stacktrace(h, e) ==
    LET s == V1Stack(h, e)
    IN  IF s.t = "stack" THEN <<"frames@", ToString(s.n), "\n">> ELSE <<>>

\* a Details that leaves the user message out
DetailsNoUserMessage(h, e) ==
    IF e = 0 THEN <<>>
    ELSE IF Stacktrace(h, e) # <<>> THEN V1Message(h, e) \o <<"\n", "\n">> \o Stacktrace(h, e)
    ELSE V1Message(h, e)

\* strings are sequences of tokens; "\n" is a token of its own
Details(h, e) ==
    IF e = 0 THEN <<>>
    ELSE LET msg == V1Message(h, e)
             userMsg == V1UserMessage(h, e)
             msg1 == IF userMsg # <<>>
                     THEN msg \o <<"\n", "\n", "User Message: ">> \o userMsg
                     ELSE msg
             s == Stacktrace(h, e)
         IN  IF s # <<>> THEN msg1 \o <<"\n", "\n">> \o s ELSE msg1

\* an Error() of *merryErr that leaves the cause out
V1ErrorNoCause(h, vb, e) ==
    IF h[e].kind # "merry" THEN h[e].value.s
    ELSE IF vb THEN Details(h, e)
    ELSE IF V1Message(h, e) = <<>> THEN V1UserMessage(h, e) ELSE V1Message(h, e)

RECURSIVE V1Error(_, _, _)
\* Error() of a *merryErr, or of an errors.New error
V1Error(h, vb, e) ==
    IF h[e].kind # "merry" THEN h[e].value.s
    ELSE IF vb THEN Details(h, e)
    ELSE LET m0 == V1Message(h, e)
             m == IF m0 = <<>> THEN V1UserMessage(h, e) ELSE m0
             c == V1Cause(h, e)
         IN  IF c # 0 /\ V1Error(h, vb, c) # <<>>
             THEN m \o <<": ">> \o V1Error(h, vb, c)
             ELSE m

RECURSIVE hasStack(_, _)
hasStack(h, e) ==
    IF e = 0 THEN FALSE
    ELSE IF h[e].kind = "merry"
         THEN IF h[e].key \in {errKeyStack, errKeyFormattedStack} THEN TRUE
              ELSE hasStack(h, h[e].err)
    ELSE FALSE

\* captureStack of the v1 API: the result is always a *merryErr
V1captureStack(h, cap, e, site, force) ==
    IF e = 0 THEN [h |-> h, err |-> 0]
    ELSE IF ~force /\ (~cap \/ hasStack(h, e))
         THEN IF h[e].kind = "merry" THEN [h |-> h, err |-> e]
              ELSE [h |-> Append(h, MerryNode(e, "", NilV)), err |-> Len(h) + 1]
    ELSE [h |-> Append(h, MerryNode(e, errKeyStack, StackV(site))), err |-> Len(h) + 1]

V1WrapSkipping(h, cap, e, site) == V1captureStack(h, cap, e, site, FALSE)

\* (*merryErr).WithValue
V1WithValue(h, e, key, value) ==
    IF e = 0 THEN [h |-> h, err |-> 0]
    ELSE [h |-> Append(h, MerryNode(e, key, value)), err |-> Len(h) + 1]

\* a chainable method of *merryErr, called on the receiver e
V1Method(h, e, op) ==
    CASE op.op = "WithMessage" -> V1WithValue(h, e, errKeyMessage, StrV(op.msg))
      [] op.op = "WithUserMessage" -> V1WithValue(h, e, errKeyUserMessage, StrV(op.msg))
      [] op.op = "WithHTTPCode" -> V1WithValue(h, e, errKeyHTTPCode, IntV(op.n))
      [] op.op = "Append" ->
            V1WithValue(h, e, errKeyMessage, StrV(V1Message(h, e) \o <<": ">> \o op.msg))
      [] op.op = "Prepend" ->
            V1WithValue(h, e, errKeyMessage, StrV(op.msg \o <<": ">> \o V1Message(h, e)))
      [] op.op = "WithCause" ->
            IF e = 0 \/ op.n = 0 THEN [h |-> h, err |-> e]
            ELSE V1WithValue(h, e, errKeyCause, ErrV(op.n))

\* the package function of the same name: WrapSkipping(e, 1).Method(...)
V1Function(h, cap, e, op) ==
    IF e = 0 THEN [h |-> h, err |-> 0]
    ELSE LET w == V1WrapSkipping(h, cap, e, 2)
         IN  V1Method(w.h, w.err, op)

V1Msgs == {<<>>, <<"a">>, <<"b">>}

V1Op(op, msg, n) == [op |-> op, msg |-> msg, n |-> n]

V1Ops(h) ==
    {V1Op(o, m, 0) : o \in {"WithMessage", "Append", "Prepend"}, m \in V1Msgs}
        \cup {V1Op("WithUserMessage", m, 0) : m \in {<<>>, <<"oops">>}}
        \cup {V1Op("WithHTTPCode", <<>>, n) : n \in {0, 404}}
        \cup {V1Op("WithCause", <<>>, c) : c \in 0..Len(h)}

\* errors.New(msg)
V1ErrorsNew ==
    \E m \in V1Msgs :
        /\ Len(nodes) < MaxV1Nodes
        /\ nodes' = Append(nodes, PlainNode("errorString", m))
        /\ UNCHANGED <<threads, verbose, hooks, captureStacks, last>>

\* New(msg)
V1New ==
    \E m \in V1Msgs :
        LET h0 == Append(nodes, PlainNode("errorString", m))
            r == V1WrapSkipping(h0, captureStacks, Len(h0), 1)
        IN  /\ Len(r.h) <= MaxV1Nodes
            /\ nodes' = r.h
            /\ UNCHANGED <<threads, verbose, hooks, captureStacks, last>>

\* WithMessage, WithUserMessage, WithHTTPCode, WithCause, Append, Prepend
V1Annotate ==
    \E e \in 1..Len(nodes) : \E op \in V1Ops(nodes) :
        LET r == V1Function(nodes, captureStacks, e, op)
        IN  /\ Len(r.h) <= MaxV1Nodes
            /\ nodes' = r.h
            /\ UNCHANGED <<threads, verbose, hooks, captureStacks, last>>

V1SetStackCaptureEnabled ==
    \E enabled \in BOOLEAN :
        /\ captureStacks' = enabled
        /\ UNCHANGED <<threads, verbose, nodes, hooks, last>>

V1SetVerboseDefault ==
    \E b \in BOOLEAN :
        /\ verbose' = b
        /\ UNCHANGED <<threads, nodes, hooks, captureStacks, last>>

NextV1 ==
    \/ V1ErrorsNew
    \/ V1New
    \/ V1Annotate
    \/ V1SetStackCaptureEnabled
    \/ V1SetVerboseDefault

SpecV1 == Init /\ [][NextV1]_vars

\* ------------------------------------------------ the v1 API: chains of causes
\* errors.New(msg)
RootErrorsNew ==
    /\ Len(nodes) < MaxRootNodes
    /\ nodes' = Append(nodes, PlainNode("errorString", <<"a">>))
    /\ UNCHANGED <<threads, verbose, hooks, captureStacks, last>>

\* New(msg)
RootNew ==
    LET h0 == Append(nodes, PlainNode("errorString", <<"a">>))
        r == V1WrapSkipping(h0, captureStacks, Len(h0), 1)
    IN  /\ Len(r.h) <= MaxRootNodes
        /\ nodes' = r.h
        /\ UNCHANGED <<threads, verbose, hooks, captureStacks, last>>

\* WithCause(e, cause), cause may be nil
RootWithCause ==
    \E e \in 1..Len(nodes) : \E c \in 0..Len(nodes) :
        LET r == V1Function(nodes, captureStacks, e, V1Op("WithCause", <<>>, c))
        IN  /\ Len(r.h) <= MaxRootNodes
            /\ nodes' = r.h
            /\ UNCHANGED <<threads, verbose, hooks, captureStacks, last>>

NextRoot ==
    \/ RootErrorsNew
    \/ RootNew
    \/ RootWithCause
    \/ V1SetStackCaptureEnabled

SpecRoot == Init /\ [][NextRoot]_vars

\* --------------------------------------- readers and writers on shared errors
Readers == 1..NumReaders

NoValues == [made |-> FALSE, m |-> <<>>]

\* a thread that runs no query
IdleThread ==
    [pc |-> "idle", op |-> "none", e |-> Nil, key |-> "", target |-> Nil, cur |-> Nil,
     values |-> NoValues, res |-> [v |-> NilV], alone |-> [v |-> NilV], raced |-> FALSE]

\* the result of a query that runs with no other thread
Alone(h, op, e, key, target) ==
    CASE op = "Value" -> [v |-> Value(h, e, key)]
      [] op = "Values" -> [v |-> Values(h, e)]
      [] op = "HasStack" -> [v |-> HasStack(h, e)]
      [] op = "Error" -> [v |-> Error(h, e)]
      [] op = "Is" -> [v |-> Is(h, e, target)]
      [] op = "Cause" -> [v |-> Cause(h, e)]

Finish(t, v) == [t EXCEPT !.pc = "done", !.res = [v |-> v]]

Goto(t, e) == [t EXCEPT !.cur = e]

\* one iteration of the loop of Value
ValueStep(h, t) ==
    IF t.cur = Nil THEN Finish(t, NilV)
    ELSE IF IsValueNode(h, t.cur)
         THEN IF h[t.cur.id].key = t.key THEN Finish(t, h[t.cur.id].value)
              ELSE Goto(t, Ref(h[t.cur.id].err))
    ELSE Goto(t, Unwrap(h, t.cur))

\* one iteration of the loop of Values
ValuesStep(h, t) ==
    IF t.cur = Nil THEN Finish(t, t.values)
    ELSE IF IsValueNode(h, t.cur) /\ h[t.cur.id].key \notin DOMAIN t.values.m
         THEN [t EXCEPT !.cur = Unwrap(h, t.cur),
                        !.values = [made |-> TRUE,
                                    m |-> (h[t.cur.id].key :> h[t.cur.id].value) @@ t.values.m]]
    ELSE Goto(t, Unwrap(h, t.cur))

\* one iteration of the loop of HasStack
HasStackStep(h, t) ==
    IF t.cur = Nil THEN Finish(t, FALSE)
    ELSE IF IsValueNode(h, t.cur)
         THEN IF h[t.cur.id].key \in {errKeyStack, errKeyFormattedStack} THEN Finish(t, TRUE)
              ELSE Goto(t, Ref(h[t.cur.id].err))
    ELSE Goto(t, Unwrap(h, t.cur))

\* one call of Error() in the chain of delegating Error() calls
ErrorStep(h, t) ==
    IF IsValueNode(h, t.cur)
    THEN IF h[t.cur.id].key = errKeyMessage /\ h[t.cur.id].value.t = "string"
         THEN Finish(t, h[t.cur.id].value.s)
         ELSE Goto(t, Ref(h[t.cur.id].err))
    ELSE IF IsCauseNode(h, t.cur) THEN Goto(t, CauseErr(h, t.cur))
    ELSE IF h[t.cur.id].kind = "foreign" THEN Goto(t, Ref(h[t.cur.id].err))
    ELSE Finish(t, h[t.cur.id].value.s)

\* one iteration of the loop of errors.Is
IsStep(h, t) ==
    IF t.cur = Nil THEN Finish(t, FALSE)
    ELSE IF t.cur = t.target THEN Finish(t, TRUE)
    ELSE IF IsCauseNode(h, t.cur) /\ errWithCauseIs(h, t.cur, t.target) THEN Finish(t, TRUE)
    ELSE Goto(t, Unwrap(h, t.cur))

\* one iteration of the loop of errors.As in Cause
CauseStep(h, t) ==
    IF t.cur = Nil THEN Finish(t, Nil)
    ELSE IF TypeOf(h, t.cur) = "errWithCause" THEN Finish(t, CauseOf(h, t.cur))
    ELSE IF IsCauseNode(h, t.cur) /\ errWithCauseAs(h, t.cur, "errWithCause") # Nil
         THEN Finish(t, CauseOf(h, errWithCauseAs(h, t.cur, "errWithCause")))
    ELSE Goto(t, Unwrap(h, t.cur))

\* the threads as they are after another thread annotated the error e:
\* a query on e that is under way has run concurrently with that write
Raced(ths, e) ==
    [r \in DOMAIN ths |->
        IF ths[r].pc = "run" /\ ths[r].e = e THEN [ths[r] EXCEPT !.raced = TRUE] ELSE ths[r]]

QueryOps == {"Value", "Values", "HasStack", "Error", "Is", "Cause"}

ConcKeys == {"color", errKeyStack}

ConcInit ==
    /\ nodes = <<PlainNode("errorString", <<"boom">>)>>
    /\ hooks = <<>>
    /\ captureStacks = TRUE
    /\ verbose = FALSE
    /\ last = NoCall
    /\ threads = [r \in Readers |-> IdleThread]

\* a thread calls a query on the shared error e
StartQuery ==
    \E r \in Readers : \E op \in QueryOps : \E e \in 1..Len(nodes) :
      \E key \in ConcKeys : \E target \in 1..Len(nodes) :
        /\ threads[r].pc = "idle"
        /\ op \in {"Value"} \/ key = "color"
        /\ op \in {"Is"} \/ target = 1
        /\ threads' = [threads EXCEPT ![r] =
               [IdleThread EXCEPT !.pc = "run", !.op = op, !.key = key,
                                  !.target = Ref(target), !.cur = Ref(e),
                                  !.e = Ref(e),
                                  !.alone = Alone(nodes, op, Ref(e), key, Ref(target))]]
        /\ UNCHANGED <<nodes, hooks, captureStacks, verbose, last>>

\* the thread runs the next step of its query
StepQuery ==
    \E r \in Readers :
        /\ threads[r].pc = "run"
        /\ threads' = [threads EXCEPT ![r] =
               CASE threads[r].op = "Value" -> ValueStep(nodes, threads[r])
                 [] threads[r].op = "Values" -> ValuesStep(nodes, threads[r])
                 [] threads[r].op = "HasStack" -> HasStackStep(nodes, threads[r])
                 [] threads[r].op = "Error" -> ErrorStep(nodes, threads[r])
                 [] threads[r].op = "Is" -> IsStep(nodes, threads[r])
                 [] threads[r].op = "Cause" -> CauseStep(nodes, threads[r])]
        /\ UNCHANGED <<nodes, hooks, captureStacks, verbose, last>>

\* another thread annotates a shared error: Set(e, key, value)
ConcSet ==
    \E e \in 1..Len(nodes) : \E k \in ConcKeys :
        LET v == IF k = "color" THEN StrV(<<"red">>) ELSE StackV(1)
            r == Set(nodes, Ref(e), k, v)
        IN  /\ Len(r.h) <= MaxConcNodes
            /\ nodes' = r.h
            /\ threads' = Raced(threads, Ref(e))
            /\ UNCHANGED <<hooks, captureStacks, verbose, last>>

\* another thread wraps a shared error with a cause
ConcWithCause ==
    \E e \in 1..Len(nodes) : \E c \in 1..Len(nodes) :
        LET r == WrapperWrap(nodes, captureStacks, WithCause(c), Ref(e))
        IN  /\ Len(r.h) <= MaxConcNodes
            /\ nodes' = r.h
            /\ threads' = Raced(threads, Ref(e))
            /\ UNCHANGED <<hooks, captureStacks, verbose, last>>

NextConc ==
    \/ StartQuery
    \/ StepQuery
    \/ ConcSet
    \/ ConcWithCause

SpecConc == ConcInit /\ [][NextConc]_vars

\* ------------------------- the globals, written and read without synchronization
\* thread 1 calls Wrap, threads 2 and 3 call AddHooks, thread 4 calls
\* ClearHooks and SetStackCaptureEnabled
Worker == 1

Adders == {2, 3}

Setter == 4

RaceHook(t) == SetValue("color", StrV(<<IF t = 2 THEN "red" ELSE "blue">>))

\* a slice header torn between a nil slice and a longer one: ranging over it
\* or appending to it dereferences a nil pointer
Poisoned == <<[w |-> "poison", key |-> "", value |-> NilV, cause |-> 0]>>

RaceThread ==
    [pc |-> "idle", op |-> "none", seen |-> <<>>, flag |-> TRUE, pending |-> <<>>,
     pflag |-> TRUE, heldH |-> {}, heldF |-> {}, out |-> 0, cleared |-> FALSE]

\* the threads that are in the middle of their store to the variable
WritingHooks(ths) ==
    {t \in DOMAIN ths : ths[t].pc = "writing" /\ ths[t].op \in {"AddHooks", "ClearHooks"}}

WritingFlag(ths) ==
    {t \in DOMAIN ths : ths[t].pc = "writing" /\ ths[t].op = "SetStackCaptureEnabled"}

MinLen(a, b) == IF Len(a) < Len(b) THEN Len(a) ELSE Len(b)

\* the slices that a three-word slice header mixed from the headers of a and
\* b can denote when the length is within both: a prefix of a or of b
Torn(a, b) == {SubSeq(a, 1, MinLen(a, b)), SubSeq(b, 1, MinLen(a, b))}

\* a length beyond the slice whose pointer was taken
CanPoison(a, b) == Len(a) # Len(b)

\* the outcomes of `hooks` read while other threads store to it
ReadHooks(hks, ths) ==
    IF hks = Poisoned THEN {[ok |-> FALSE, v |-> <<>>]}
    ELSE IF WritingHooks(ths) = {} THEN {[ok |-> TRUE, v |-> hks]}
    ELSE {[ok |-> TRUE, v |-> hks]}
         \cup {[ok |-> TRUE, v |-> ths[t].pending] : t \in WritingHooks(ths)}
         \cup {[ok |-> TRUE, v |-> x] :
                  x \in UNION {Torn(hks, ths[t].pending) : t \in WritingHooks(ths)}}
         \cup {[ok |-> FALSE, v |-> <<>>] :
                  t \in {u \in WritingHooks(ths) : CanPoison(hks, ths[u].pending)}}

\* the outcomes of `captureStacks` read while other threads store to it
ReadFlag(cap, ths) == {cap} \cup {ths[t].pflag : t \in WritingFlag(ths)}

\* the outcomes of a store to `hooks` that overlaps the stores of other threads
StoreHooks(t, ths) ==
    {ths[t].pending}
        \cup UNION {Torn(ths[t].pending, ths[u].pending) : u \in WritingHooks(ths) \ {t}}
        \cup {Poisoned : u \in {x \in WritingHooks(ths) \ {t} :
                                    CanPoison(ths[t].pending, ths[x].pending)}}

\* the worker's record of the values the globals held during its call
Held(ths, hks, flags) ==
    [ths EXCEPT ![Worker] =
        IF ths[Worker].pc \in {"range", "capture"}
        THEN [ths[Worker] EXCEPT
                 !.heldH = IF ths[Worker].pc = "range" THEN @ \cup hks ELSE @,
                 !.heldF = @ \cup flags]
        ELSE ths[Worker]]

RaceInit ==
    /\ nodes = <<PlainNode("errorString", <<"boom">>)>>
    /\ hooks = <<>>
    /\ captureStacks = TRUE
    /\ verbose = FALSE
    /\ last = NoCall
    /\ threads = [t \in 1..4 |-> RaceThread]

\* Wrap(err) is called
RaceWrapCall ==
    /\ threads[Worker].pc = "idle"
    /\ threads' = [threads EXCEPT ![Worker] =
           [@ EXCEPT !.pc = "range", !.op = "Wrap",
                     !.heldH = {hooks} \cup {threads[t].pending : t \in WritingHooks(threads)},
                     !.heldF = {captureStacks}
                                  \cup {threads[t].pflag : t \in WritingFlag(threads)}]]
    /\ UNCHANGED <<nodes, hooks, captureStacks, verbose, last>>

\* apply evaluates the range expression `hooks`
RaceWrapRange ==
    \E x \in ReadHooks(hooks, threads) :
        /\ threads[Worker].pc = "range"
        /\ threads' = [threads EXCEPT ![Worker] =
               IF x.ok THEN [@ EXCEPT !.pc = "capture", !.seen = x.v]
               ELSE [@ EXCEPT !.pc = "panic"]]
        /\ UNCHANGED <<nodes, hooks, captureStacks, verbose, last>>

\* the hooks read are applied, captureStack reads `captureStacks`, Wrap returns
RaceWrapCapture ==
    \E f \in ReadFlag(captureStacks, threads) :
        LET r == apply(nodes, f, threads[Worker].seen, Ref(1), TRUE, TRUE, <<>>)
        IN  /\ threads[Worker].pc = "capture"
            /\ Len(r.h) <= MaxRaceNodes
            /\ nodes' = r.h
            /\ threads' = [threads EXCEPT ![Worker] =
                   [@ EXCEPT !.pc = "done", !.flag = f, !.out = r.err.id]]
            /\ UNCHANGED <<hooks, captureStacks, verbose, last>>

\* AddHooks(hook): the argument `hooks` of append is read
RaceAddHooksRead ==
    \E t \in Adders : \E x \in ReadHooks(hooks, threads) :
        /\ threads[t].pc = "idle"
        /\ threads' = [threads EXCEPT ![t] =
               IF x.ok THEN [@ EXCEPT !.pc = "append", !.op = "AddHooks", !.seen = x.v,
                                      !.pending = Append(x.v, RaceHook(t))]
               ELSE [@ EXCEPT !.pc = "panic"]]
        /\ UNCHANGED <<nodes, hooks, captureStacks, verbose, last>>

\* AddHooks: the store of the appended slice to `hooks` begins
RaceAddHooksStore ==
    \E t \in Adders :
        /\ threads[t].pc = "append"
        /\ threads' = Held([threads EXCEPT ![t] = [@ EXCEPT !.pc = "writing"]],
                           {threads[t].pending}, {})
        /\ UNCHANGED <<nodes, hooks, captureStacks, verbose, last>>

\* ClearHooks(): the store of nil to `hooks` begins
RaceClearHooks ==
    /\ threads[Setter].pc = "idle"
    /\ threads' = Held([threads EXCEPT ![Setter] =
                           [@ EXCEPT !.pc = "writing", !.op = "ClearHooks",
                                     !.pending = <<>>, !.cleared = TRUE]],
                       {<<>>}, {})
    /\ UNCHANGED <<nodes, hooks, captureStacks, verbose, last>>

\* a store to `hooks` completes
RaceHooksStored ==
    \E t \in WritingHooks(threads) : \E v \in StoreHooks(t, threads) :
        /\ hooks' = v
        /\ threads' = [threads EXCEPT ![t] =
               [@ EXCEPT !.pc = IF t = Setter THEN "idle" ELSE "done"]]
        /\ UNCHANGED <<nodes, captureStacks, verbose, last>>

\* SetStackCaptureEnabled(enabled): the store to `captureStacks` begins
RaceSetStackCaptureEnabled ==
    \E enabled \in BOOLEAN :
        /\ threads[Setter].pc = "idle"
        /\ threads' = Held([threads EXCEPT ![Setter] =
                               [@ EXCEPT !.pc = "writing", !.op = "SetStackCaptureEnabled",
                                         !.pflag = enabled]],
                           {}, {enabled})
        /\ UNCHANGED <<nodes, hooks, captureStacks, verbose, last>>

\* the store to `captureStacks` completes
RaceFlagStored ==
    \E t \in WritingFlag(threads) :
        /\ captureStacks' = threads[t].pflag
        /\ threads' = [threads EXCEPT ![t] = [@ EXCEPT !.pc = "idle"]]
        /\ UNCHANGED <<nodes, hooks, verbose, last>>

NextRace ==
    \/ RaceWrapCall
    \/ RaceWrapRange
    \/ RaceWrapCapture
    \/ RaceAddHooksRead
    \/ RaceAddHooksStore
    \/ RaceClearHooks
    \/ RaceHooksStored
    \/ RaceSetStackCaptureEnabled
    \/ RaceFlagStored

SpecRace == RaceInit /\ [][NextRace]_vars

\* ------------------------------------------------------- the chain, as data
Ids == 1..Len(nodes)

Keys == {"color", errKeyStack, errKeyHTTPCode, errKeyMessage}

RECURSIVE Ancestors(_, _)
\* the nodes of the chain of node i: i and everything reached over wrapped links
Ancestors(h, i) ==
    IF i = 0 THEN {} ELSE {i} \cup Ancestors(h, h[i].err)

RECURSIVE Nearest(_, _, _)
\* the annotation node for key nearest to the head of the chain of i, or 0
Nearest(h, i, key) ==
    IF i = 0 THEN 0
    ELSE IF h[i].kind = "value" /\ h[i].key = key THEN i
    ELSE Nearest(h, h[i].err, key)

ChainHasStack(h, i) ==
    Nearest(h, i, errKeyStack) # 0 \/ Nearest(h, i, errKeyFormattedStack) # 0

\* the capture switch was just set; every heap with every setting of the hooks and of
\* the switch occurs in such a state, since setting the switch to its value is allowed
Idle == last.op = "SetStackCaptureEnabled"

\* the nodes the latest call allocated
NewNodes == (last.n0 + 1)..Len(nodes)

\* --------------------------------------------------------------------- C1
\* C1: a nil error stays nil: Wrap, WrapSkipping and Set called with nil return nil,
\* allocate no node and invoke no hook, every wrapper's Wrap(nil, depth) returns nil,
\* and no node of the heap wraps a nil error.
C1_NilPropagation ==
    /\ (last.op \in {"Wrap", "Set"} /\ last.in = 0) =>
           (last.out = 0 /\ last.n0 = Len(nodes) /\ last.calls = 0)
    /\ \A w \in AllWrappers(nodes) :
           /\ WrapperWrap(nodes, captureStacks, w, Nil) = [h |-> nodes, err |-> Nil]
           /\ \A w2 \in AllWrappers(nodes) :
                  WrapSkipping(nodes, captureStacks, hooks, Nil, <<w, w2>>)
                      = [h |-> nodes, err |-> Nil, calls |-> 0]
    /\ \A i \in Ids : nodes[i].kind # "plain" => nodes[i].err \in 1..(i - 1)

C1_Witness ==
    /\ last.op = "Wrap" /\ last.in = 0 /\ last.ws # <<>>
    /\ hooks # <<>> /\ Len(nodes) > 0 /\ last.out = 0

\* --------------------------------------------------------------------- C2
\* C2: when the chain of an error holds an annotation node for key k, Value(err, k) is
\* the value of the one nearest to the head; older annotations for k stay hidden.
C2_Shadowing ==
    \A e \in Ids : \A k \in Keys :
        Nearest(nodes, e, k) # 0 =>
            Value(nodes, Ref(e), k) = nodes[Nearest(nodes, e, k)].value

\* --------------------------------------------------------------------- C3
SameQueries(h1, h2, i) ==
    /\ \A k \in Keys : Value(h1, Ref(i), k) = Value(h2, Ref(i), k)
    /\ HTTPCode(h1, Ref(i)) = HTTPCode(h2, Ref(i))
    /\ Error(h1, Ref(i)) = Error(h2, Ref(i))
    /\ Cause(h1, Ref(i)) = Cause(h2, Ref(i))
    /\ Stack(h1, Ref(i)) = Stack(h2, Ref(i))

\* C3: no operation changes an existing node: every step leaves every node of the
\* heap as it was and only allocates new ones, and Value, HTTPCode, Error, Cause and
\* Stack of an error return what they returned when it was the newest node, whatever
\* was built from it since.
C3_Immutable ==
    /\ [][Len(nodes') >= Len(nodes) /\ SubSeq(nodes', 1, Len(nodes)) = nodes]_vars
    /\ [](\A i \in Ids : SameQueries(SubSeq(nodes, 1, i), nodes, i))

\* an error whose color is still red after a wrap of it set the color to blue
C3_Witness ==
    /\ last.op \in {"Wrap", "Set"} /\ last.in > 0 /\ last.out > last.in
    /\ Value(nodes, Ref(last.in), "color") = StrV(<<"red">>)
    /\ Value(nodes, Ref(last.out), "color") = StrV(<<"blue">>)

\* --------------------------------------------------------------------- C4
\* C4: with capture enabled, Wrap(e) or New(msg), called without wrappers on an error
\* whose chain holds no stack node, returns an error that has a stack, and that stack
\* is the one this call captured.
C4_AutomaticCapture ==
    (/\ last.op \in {"Wrap", "New"} /\ last.in > 0 /\ last.ws = <<>> /\ captureStacks
     /\ ~ChainHasStack(nodes, last.in)) =>
        /\ HasStack(nodes, Ref(last.out))
        /\ Stack(nodes, Ref(last.out)).t = "stack"
        /\ Stack(nodes, Ref(last.out)).n \in NewNodes

\* --------------------------------------------------------------------- C5
\* C5: Wrap of an error whose chain already holds a stack node captures no second
\* stack: the call allocates no stack node and the stack stays the one attached.
C5_FirstStackWins ==
    (/\ last.op = "Wrap" /\ last.in > 0 /\ ChainHasStack(nodes, last.in)) =>
        /\ \A i \in NewNodes : ~(nodes[i].kind = "value" /\ nodes[i].key = errKeyStack)
        /\ Stack(nodes, Ref(last.out)) = Stack(nodes, Ref(last.in))

C7_CausalIs ==
    \A e1 \in Ids : \A e2 \in Ids :
        LET r == WrapSkipping(nodes, captureStacks, hooks, Ref(e1), <<WithCause(e2)>>)
        IN  /\ Is(r.h, r.err, Ref(e1))
            /\ Is(r.h, r.err, Ref(e2))
            /\ \A a \in Ancestors(nodes, e1) \cup Ancestors(nodes, e2) :
                   Is(r.h, r.err, Ref(a))
            /\ ~Is(r.h, Ref(e1), r.err)

\* a cause node of the heap whose wrapped error and whose cause both have a chain of
\* several nodes, all of them found from the cause node
C7_Witness ==
    \E w \in Ids :
        /\ nodes[w].kind = "cause"
        /\ nodes[w].err # nodes[w].cause
        /\ Cardinality(Ancestors(nodes, nodes[w].err)) >= 2
        /\ Cardinality(Ancestors(nodes, nodes[w].cause)) >= 2
        /\ \E a \in Ancestors(nodes, nodes[w].err) \cup Ancestors(nodes, nodes[w].cause) :
               nodes[a].kind = "foreign"
        /\ \A a \in Ancestors(nodes, nodes[w].err) \cup Ancestors(nodes, nodes[w].cause) :
               Is(nodes, Ref(w), Ref(a))
        /\ ~Is(nodes, Ref(nodes[w].err), Ref(w))

\* --------------------------------------------------------------------- C8
RECURSIVE LatestCause(_, _)
\* the cause attached nearest to the head of the chain of i, or 0
LatestCause(h, i) ==
    IF i = 0 THEN 0
    ELSE IF h[i].kind = "cause" THEN h[i].cause
    ELSE LatestCause(h, h[i].err)

RECURSIVE IsSet(_, _)
\* the chain of i, then the chain of its latest cause, and so on
IsSet(h, i) ==
    IF i = 0 THEN {} ELSE Ancestors(h, i) \cup IsSet(h, LatestCause(h, i))

Types == {"errorString", "UnwrapperError", "errWithValue", "errWithCause"}

\* C8: errors.Is and errors.As search the chain of the error and the chain of its
\* latest cause only (and so on from that cause): Is(err, t) is true exactly for the
\* nodes t found that way, and As finds a node of the target type exactly when one
\* is found that way; a cause that a later WithCause replaced is not searched.
C8_LatestCauseOnly ==
    \A e \in Ids :
        /\ \A t \in Ids : Is(nodes, Ref(e), Ref(t)) <=> t \in IsSet(nodes, e)
        /\ \A typ \in Types :
               LET r == As(nodes, Ref(e), typ)
               IN  IF \E n \in IsSet(nodes, e) : nodes[n].typ = typ
                   THEN /\ r # Nil /\ ~r.shim /\ r.id \in IsSet(nodes, e)
                        /\ nodes[r.id].typ = typ
                   ELSE r = Nil

\* an error whose cause was replaced: the latest cause is found, the first is not
C8_Witness ==
    \E w2 \in Ids : \E w1 \in Ids :
        /\ nodes[w2].kind = "cause" /\ nodes[w1].kind = "cause"
        /\ w1 \in Ancestors(nodes, nodes[w2].err)
        /\ nodes[w1].cause # nodes[w2].cause
        /\ nodes[w1].cause \notin IsSet(nodes, w2)
        /\ Is(nodes, Ref(w2), Ref(nodes[w2].cause))
        /\ ~Is(nodes, Ref(w2), Ref(nodes[w1].cause))
        /\ Cause(nodes, Ref(w2)) = Ref(nodes[w2].cause)

\* --------------------------------------------------------------------- C9
RECURSIVE SwapCauses(_, _)
\* the heap with every attached cause replaced by another error of the heap: cause
\* node i then carries cause c (c = 0 leaves the heap as it is)
SwapCauses(h, c) ==
    IF c = 0 THEN h
    ELSE [i \in 1..Len(h) |->
             IF h[i].kind = "cause" /\ c < i THEN [h[i] EXCEPT !.cause = c] ELSE h[i]]

\* C9: Value is computed from the primary chain alone: a key annotated only in the
\* cause chain yields nil, a key annotated in both yields the primary chain's value,
\* and attaching a different cause to the same primary chain changes no Value.
C9_ValueIgnoresCauses ==
    \A e \in Ids : \A k \in Keys :
        /\ Nearest(nodes, e, k) = 0 => Value(nodes, Ref(e), k) = NilV
        /\ \A c \in Ids : Value(SwapCauses(nodes, c), Ref(e), k) = Value(nodes, Ref(e), k)

\* -------------------------------------------------------------------- C10
\* C10: Values(err) has key k exactly when the chain of err holds an annotation node
\* for k, and then Values(err)[k] = Value(err, k); the map is nil for a nil error and
\* for a chain without annotation nodes.
C10_ValuesIsValue ==
    /\ Values(nodes, Nil).made = FALSE
    /\ \A e \in Ids :
           LET vs == Values(nodes, Ref(e))
           IN  /\ \A k \in Keys :
                      /\ (k \in DOMAIN vs.m) <=> (Nearest(nodes, e, k) # 0)
                      /\ (k \in DOMAIN vs.m) => vs.m[k] = Value(nodes, Ref(e), k)
               /\ vs.made <=> (\E k \in Keys : Nearest(nodes, e, k) # 0)

\* -------------------------------------------------------------------- C11
\* the node a wrapper of Wrappers allocates around node e
WrapperNode(w, e) ==
    IF w.w = "WithCause" THEN CauseNode(e, w.cause) ELSE ValueNode(e, w.key, w.value)

\* lists of up to two wrappers a caller passes
WrapperPairs(h) == WrapperLists(h) \cup {<<w1, w2>> : w1 \in Wrappers(h), w2 \in Wrappers(h)}

\* the result r of a pipeline call on node e of heap h with hooks hks and wrappers ws
\* has the nodes of the hooks, then those of ws, then at most one stack node on top
InPipelineOrder(h, hks, e, ws, r) ==
    LET all == hks \o ws
        n == Len(h)
        k == Len(all)
    IN  /\ Len(r.h) \in {n + k, n + k + 1}
        /\ SubSeq(r.h, 1, n) = h
        /\ \A i \in 1..k : r.h[n + i] = WrapperNode(all[i], IF i = 1 THEN e ELSE n + i - 1)
        /\ Len(r.h) = n + k + 1 =>
               r.h[n + k + 1] = ValueNode(IF k = 0 THEN e ELSE n + k, errKeyStack, StackV(n + k + 1))
        /\ r.err = IF Len(r.h) = n THEN Ref(e) ELSE Ref(Len(r.h))

C12_HookInvocation ==
    /\ (last.op \in {"Wrap", "New"} /\ last.in > 0) =>
           /\ last.calls = Len(hooks)
           /\ \A i \in 1..Len(hooks) :
                  LET n == last.n0 + (IF last.op = "New" THEN 1 ELSE 0) + i
                  IN  /\ n <= Len(nodes)
                      /\ nodes[n].err > 0
                      /\ nodes[n] = WrapperNode(hooks[i], IF i = 1 THEN last.in ELSE n - 1)
           /\ hooks = <<>> =>
                  \A i \in NewNodes :
                      \/ nodes[i].kind = "plain"
                      \/ \E j \in 1..Len(last.ws) : nodes[i] = WrapperNode(last.ws[j], nodes[i].err)
                      \/ nodes[i].key = errKeyStack
    /\ last.op = "AddHooks" => (hooks # <<>> /\ hooks[Len(hooks)] = last.ws[1])
    /\ last.op = "ClearHooks" => hooks = <<>>

\* the hook runs again on an error that an earlier Wrap already gave the hook's node
C12_Witness ==
    /\ last.op = "Wrap" /\ last.in > 0 /\ hooks # <<>> /\ last.calls = 1
    /\ nodes[last.in].kind = "value" /\ nodes[last.in].key = errKeyStack
    /\ nodes[nodes[last.in].err] = WrapperNode(hooks[1], nodes[nodes[last.in].err].err)
    /\ nodes[last.n0 + 1] = WrapperNode(hooks[1], last.in)

\* -------------------------------------------------------------------- C13
\* the caller's wrappers of the latest call each have their node in the heap
WrapperNodesAttached ==
    \A j \in 1..Len(last.ws) :
        \E i \in NewNodes : nodes[i] = WrapperNode(last.ws[j], nodes[i].err)

Suppressed(h, i) ==
    /\ \E a \in Ancestors(h, i) :
           h[a].kind = "value" /\ h[a].key = errKeyStack /\ h[a].value = NilV
    /\ \A a \in Ancestors(h, i) :
           ~(h[a].kind = "value" /\ h[a].key = errKeyStack /\ h[a].value.t = "stack")

Forcing(ws) == \E j \in 1..Len(ws) : ws[j].w \in {"ForceCaptureStack", "CaptureStack"}

\* C14: an error built with NoCaptureStack has a nil Stack and HasStack true, and a
\* Wrap of a suppressed error without a forcing wrapper returns a suppressed error:
\* no stack is captured, Stack stays nil and HasStack stays true.
C14_SuppressionPersists ==
    /\ \A e \in Ids :
           (nodes[e].kind = "value" /\ nodes[e].key = errKeyStack /\ nodes[e].value = NilV
              /\ ~ChainHasStack(nodes, nodes[e].err)) =>
               (Stack(nodes, Ref(e)) = NilV /\ HasStack(nodes, Ref(e)))
    /\ (last.op = "Wrap" /\ last.in > 0 /\ Suppressed(nodes, last.in) /\ ~Forcing(last.ws)) =>
           /\ Suppressed(nodes, last.out)
           /\ Stack(nodes, Ref(last.out)) = NilV
           /\ HasStack(nodes, Ref(last.out))

RECURSIVE NearestMessage(_, _)
\* the nearest node along the err links that stores a string under the message key
NearestMessage(h, i) ==
    IF i = 0 THEN 0
    ELSE IF h[i].kind = "value" /\ h[i].key = errKeyMessage /\ h[i].value.t = "string" THEN i
    ELSE NearestMessage(h, h[i].err)

RECURSIVE Terminal(_, _)
\* the terminal error at the end of the err links
Terminal(h, i) == IF h[i].err = 0 THEN i ELSE Terminal(h, h[i].err)

RECURSIVE NearestMerry(_, _, _)
\* the nearest *merryErr along the err links that stores the key, or 0
NearestMerry(h, i, key) ==
    IF i = 0 THEN 0
    ELSE IF h[i].kind = "merry" /\ h[i].key = key THEN i
    ELSE NearestMerry(h, h[i].err, key)

\* the string stored under a key by the nearest annotation, "" when there is none
NearestString(h, i, key) ==
    IF NearestMerry(h, i, key) = 0 THEN <<>> ELSE h[NearestMerry(h, i, key)].value.s

\* the message annotation, else the message of the terminal error
OwnMessageOnly(h, i) ==
    IF NearestString(h, i, errKeyMessage) # <<>>
    THEN NearestString(h, i, errKeyMessage)
    ELSE h[Terminal(h, i)].value.s

\* the error's own message: its message annotation, else the message of the
\* terminal error, else its user message
OwnMessage(h, i) ==
    LET m == IF NearestString(h, i, errKeyMessage) # <<>>
             THEN NearestString(h, i, errKeyMessage)
             ELSE h[Terminal(h, i)].value.s
    IN  IF m # <<>> THEN m ELSE NearestString(h, i, errKeyUserMessage)

\* the error attached by the nearest cause annotation, or 0
AttachedCause(h, i) ==
    IF NearestMerry(h, i, errKeyCause) = 0 THEN 0 ELSE h[NearestMerry(h, i, errKeyCause)].value.n

MerryIds == {i \in Ids : nodes[i].kind = "merry"}

\* C16 (as stated): whenever a cause is attached anywhere in the chain,
\* Error() is the error's own message followed by ": " and the cause's
\* rendered message.
C16_AsStated ==
    \A i \in MerryIds :
        AttachedCause(nodes, i) # 0 =>
            V1Error(nodes, verbose, i) =
                V1Message(nodes, i) \o <<": ">> \o V1Error(nodes, verbose, AttachedCause(nodes, i))

\* C16 (amended): with verbose mode off, Error() of a *merryErr is its own
\* message (the message annotation, else the terminal error's message, else
\* the user message), followed by ": " and the cause's Error() exactly when a
\* cause is attached and the cause's Error() is not empty; the cause's message
\* appears after the own message once, also when the own message was built by
\* Append or Prepend on the cause-carrying error.
C16_MessageWithCause ==
    ~verbose =>
        \A i \in MerryIds :
            LET c == AttachedCause(nodes, i)
                ce == IF c = 0 THEN <<>> ELSE V1Error(nodes, verbose, c)
            IN  /\ V1Cause(nodes, i) = c
                /\ V1Error(nodes, verbose, i) =
                       IF ce # <<>> THEN OwnMessage(nodes, i) \o <<": ">> \o ce
                       ELSE OwnMessage(nodes, i)

\* Append(e, "b") on an error e that reads "a: a" (message "a", cause "a")
\* reads "a: b: a": the appended text comes before the cause
C16_Witness ==
    /\ ~verbose
    /\ \E i \in MerryIds :
           /\ nodes[i].key = errKeyMessage
           /\ AttachedCause(nodes, nodes[i].err) # 0
           /\ V1Error(nodes, verbose, i) = <<"a", ": ", "b", ": ", "a">>

\* C17: HTTPCode(nil) = 200; a non-nil error with no HTTP-code annotation in
\* its chain has HTTPCode 500; otherwise HTTPCode is the code of the nearest
\* HTTP-code annotation of the chain, also below a foreign error that only
\* has Unwrap.  (Stated for annotations with a non-zero code.)
C17_HTTPCode ==
    /\ HTTPCode(nodes, Nil) = 200
    /\ \A i \in Ids :
           LET a == Nearest(nodes, i, errKeyHTTPCode)
           IN  /\ a = 0 => HTTPCode(nodes, Ref(i)) = 500
               /\ (a # 0 /\ nodes[a].value.n # 0) => HTTPCode(nodes, Ref(i)) = nodes[a].value.n

MsgKeys == {"color", errKeyStack, errKeyHTTPCode, errKeyMessage, errKeyUserMessage}

\* the queries on the nil error
C18_NilQueries ==
    /\ \A k \in MsgKeys : Value(nodes, Nil, k) = NilV
    /\ ~Values(nodes, Nil).made
    /\ Stack(nodes, Nil) = NilV
    /\ ~HasStack(nodes, Nil)
    /\ Cause(nodes, Nil) = Nil
    /\ UserMessage(nodes, Nil) = <<>>
    /\ Details(nodes, 0) = <<>>
    /\ Stacktrace(nodes, 0) = <<>>

\* C18: the queries are total: on nil they return nil, false or "", and on a
\* non-nil error whose chain has no matching annotation they return the same
\* zero values: a missing key gives nil, a missing stack nil, a missing user
\* message "", a missing cause nil.
C18_ZeroValues ==
    /\ C18_NilQueries
    /\ \A i \in Ids :
           /\ \A k \in MsgKeys : Nearest(nodes, i, k) = 0 => Value(nodes, Ref(i), k) = NilV
           /\ ~ChainHasStack(nodes, i) => (Stack(nodes, Ref(i)) = NilV /\ ~HasStack(nodes, Ref(i)))
           /\ Nearest(nodes, i, errKeyUserMessage) = 0 => UserMessage(nodes, Ref(i)) = <<>>
           /\ LatestCause(nodes, i) = 0 => Cause(nodes, Ref(i)) = Nil

RECURSIVE Causes(_, _)
\* the errors reached from i over one or more Cause links
Causes(h, i) ==
    IF AttachedCause(h, i) = 0 THEN {}
    ELSE {AttachedCause(h, i)} \cup Causes(h, AttachedCause(h, i))

\* C19: Cause(err) is the most recently attached cause of err's chain, or nil
\* when err is nil or has no cause; RootCause(err) follows the Cause links to
\* an error without a cause and returns it: err itself when it has no cause,
\* nil for nil.
C19_CauseRootCause ==
    /\ V1Cause(nodes, 0) = 0
    /\ V1RootCause(nodes, 0) = 0
    /\ \A i \in Ids :
           /\ V1Cause(nodes, i) = AttachedCause(nodes, i)
           /\ AttachedCause(nodes, i) = 0 => V1RootCause(nodes, i) = i
           /\ AttachedCause(nodes, i) # 0 =>
                  /\ V1RootCause(nodes, i) \in Causes(nodes, i)
                  /\ V1RootCause(nodes, i) = V1RootCause(nodes, AttachedCause(nodes, i))
           /\ V1Cause(nodes, V1RootCause(nodes, i)) = 0

\* e3 = WithCause(e2, e1) and e5 = WithCause(e4, e3), e5 carrying a second,
\* older cause: Cause(e5) = e3 and RootCause(e5) = e1
C19_Witness ==
    \E e1, e3, e5 \in Ids :
        /\ nodes[e5].key = errKeyCause /\ nodes[e5].value.n = e3
        /\ nodes[e3].key = errKeyCause /\ nodes[e3].value.n = e1
        /\ V1Cause(nodes, e1) = 0
        /\ V1Cause(nodes, e5) = e3
        /\ V1RootCause(nodes, e5) = e1
        /\ e1 # e3
        /\ NearestMerry(nodes, nodes[e5].err, errKeyCause) # 0

\* text t occurs in d at position p
OccursAt(d, t, p) == p >= 1 /\ p + Len(t) - 1 <= Len(d) /\ SubSeq(d, p, p + Len(t) - 1) = t

\* t is a whole line of d: it starts at the beginning or after a line break,
\* and ends at the end or before a line break
HasLine(d, t) ==
    \E p \in 1..Len(d) :
        /\ OccursAt(d, t, p)
        /\ (p = 1 \/ d[p - 1] = "\n")
        /\ (p + Len(t) - 1 = Len(d) \/ d[p + Len(t)] = "\n")

\* t occurs in d after a blank line
AfterBlankLine(d, t) ==
    \E p \in 3..Len(d) : OccursAt(d, t, p) /\ d[p - 1] = "\n" /\ d[p - 2] = "\n"

C21_ConcurrentReads ==
    \A r \in DOMAIN threads :
        LET t == threads[r]
        IN  /\ t.pc = "done" => t.res = t.alone
            /\ t.pc \in {"run", "done"} => Alone(nodes, t.op, t.e, t.key, t.target) = t.alone

\* a Values query on an annotated error has returned its map, and another
\* thread annotated that error while the query was under way
C21_Witness ==
    \E r \in DOMAIN threads :
        LET t == threads[r]
        IN  /\ t.pc = "done" /\ t.op = "Values"
            /\ t.raced
            /\ t.res.v.made
            /\ \E j \in 1..Len(nodes) : nodes[j].err = t.e.id /\ nodes[j].kind = "value"

Prefixes(x) == {SubSeq(x, 1, k) : k \in 0..Len(x)}

\* C22: the hook list and the capture flag are read by Wrap and written by
\* AddHooks, ClearHooks and SetStackCaptureEnabled without synchronization.
\* A Wrap that runs concurrently with such writes applies a hook list that
\* the variable held, or was being given, during the call (or a prefix of
\* one, from a torn read), decides capture by a flag value from before or
\* after a concurrent write, and builds exactly the error that this list and
\* this flag give; the hook list itself only ever holds hooks that some
\* AddHooks call appended, but not necessarily all of them.
C22_UnsynchronizedConfig ==
    LET w == threads[Worker]
    IN  /\ hooks = Poisoned
           \/ /\ \A k \in 1..Len(hooks) : hooks[k] \in {RaceHook(t) : t \in Adders}
              /\ \A j, k \in 1..Len(hooks) : hooks[j] = hooks[k] => j = k
        /\ w.pc \in {"capture", "done"} => w.seen \in UNION {Prefixes(x) : x \in w.heldH}
        /\ w.pc = "done" =>
              /\ w.flag \in w.heldF
              /\ Len(nodes) = 1 + Len(w.seen) + (IF w.flag THEN 1 ELSE 0)
              /\ w.out = Len(nodes)
              /\ \A k \in 1..Len(w.seen) :
                     /\ nodes[1 + k].key = w.seen[k].key
                     /\ nodes[1 + k].value = w.seen[k].value
                     /\ nodes[1 + k].err = k
              /\ w.flag <=> nodes[Len(nodes)].key = errKeyStack

\* both AddHooks calls have returned, no ClearHooks was ever called, and one
\* of the two hooks is lost; the Wrap that started with an empty hook list
\* and capture enabled applied a hook stored during the call and captured no
\* stack, because the flag was cleared meanwhile
C22_Witness ==
    /\ \A t \in Adders : threads[t].pc = "done"
    /\ ~threads[Setter].cleared
    /\ Len(hooks) = 1
    /\ threads[Worker].pc = "done"
    /\ <<>> \in threads[Worker].heldH
    /\ threads[Worker].seen # <<>>
    /\ TRUE \in threads[Worker].heldF
    /\ ~threads[Worker].flag

RECURSIVE UnwrapSeq(_, _)
\* the errors that repeated errors.Unwrap yields, starting with e itself
UnwrapSeq(h, e) == IF e = Nil THEN <<>> ELSE <<e>> \o UnwrapSeq(h, Unwrap(h, e))

\* the error an *errWithCause stands for: the first error beneath it that is
\* not an *errWithCause; any other error stands for itself
Underlying(h, e) == IF IsCauseNode(h, e) THEN SkipCauses(h, e) ELSE e

RECURSIVE PrimaryNodes(_, _)
\* the errors of the primary chain of node i, newest first, without the
\* *errWithCause nodes that only attach a cause
PrimaryNodes(h, i) ==
    IF i = 0 THEN <<>>
    ELSE IF h[i].kind = "cause" THEN PrimaryNodes(h, h[i].err)
    ELSE <<Ref(i)>> \o PrimaryNodes(h, h[i].err)

\* C23: starting from an error that carries a cause, repeated errors.Unwrap
\* yields the errors of the primary chain from newest to oldest (each
\* yielded error is, or is an *errWithCause standing for, the next error of
\* the chain, and has its message), and only then the most recently attached
\* cause and what that cause unwraps to; a superseded cause is not yielded.
C23_UnwrapOrder ==
    \A i \in Ids :
        LatestCause(nodes, i) # 0 =>
            LET seq == UnwrapSeq(nodes, Ref(i))
                prim == PrimaryNodes(nodes, i)
                rest == UnwrapSeq(nodes, Ref(LatestCause(nodes, i)))
            IN  /\ Len(seq) = Len(prim) + Len(rest)
                /\ \A k \in 1..Len(prim) :
                       /\ Underlying(nodes, seq[k]) = prim[k]
                       /\ Error(nodes, seq[k]) = Error(nodes, prim[k])
                /\ SubSeq(seq, Len(prim) + 1, Len(seq)) = rest

\* a newer cause attached over an error that already carries another cause,
\* with an annotation in between: the sequence ends in the newer cause and
\* the superseded cause is not in it
C23_Witness ==
    \E i, j \in Ids :
        /\ nodes[i].kind = "cause" /\ nodes[j].kind = "cause"
        /\ j \in Ancestors(nodes, i) \ {i}
        /\ nodes[nodes[i].err].kind = "value"
        /\ nodes[i].cause # nodes[j].cause
        /\ LET seq == UnwrapSeq(nodes, Ref(i))
           IN  /\ seq[Len(seq)] = Ref(nodes[i].cause)
               /\ \A k \in 1..Len(seq) : seq[k] # Ref(nodes[j].cause)
               /\ Len(seq) >= 4

\* -------------------------------------------------------------------- C24
\* the heap size a call started from, after New allocated its plain error
CallBase == IF last.op = "New" THEN last.in ELSE last.n0

\* the latest call added exactly one node, a stack node of its own around its input
AddedStack ==
    /\ Len(nodes) = CallBase + 1
    /\ last.out = Len(nodes)
    /\ nodes[last.out] = ValueNode(last.in, errKeyStack, StackV(last.out))
    /\ Stack(nodes, Ref(last.out)) = StackV(last.out)
    /\ Stack(nodes, Ref(last.out)) # Stack(nodes, Ref(last.in))
    /\ HasStack(nodes, Ref(last.out))

\* C24: Wrap/New with ForceCaptureStack always adds a new stack node, also when
\* capture is disabled or the chain already has a stack, and Stack returns the
\* new stack, not the earlier one; with CaptureStack the same happens when
\* capture is enabled, and when capture is disabled the error is returned
\* unchanged and nothing is allocated.
C24_ForcedCapture ==
    (last.op \in {"Wrap", "New"} /\ last.in > 0) =>
        /\ last.ws = <<ForceCaptureStack>> => AddedStack
        /\ (last.ws = <<CaptureStack>> /\ StackCaptureEnabled) => AddedStack
        /\ (last.ws = <<CaptureStack>> /\ ~StackCaptureEnabled) =>
               (last.out = last.in /\ Len(nodes) = CallBase)

\* ForceCaptureStack while capture is disabled, on an error that has a stack
C24_Witness ==
    /\ last.op = "Wrap" /\ last.ws = <<ForceCaptureStack>> /\ ~StackCaptureEnabled
    /\ Stack(nodes, Ref(last.in)).t = "stack"
    /\ Stack(nodes, Ref(last.out)) = StackV(last.out)
    /\ Stack(nodes, Ref(last.out)) # Stack(nodes, Ref(last.in))

\* -------------------------------------------------------------------- C25
\* ------------------------------------------ sentinels: Sentinel, then Wrap
MaxSentNodes == 5

\* the annotators given to Sentinel when the heap is h
SentWrappers(h) ==
    {SetHTTPCode(404), SetValue("color", StrV(<<"blue">>))}
        \cup {WithCause(c) : c \in 1..Len(h)}

SentWrapperLists(h) == {<<>>} \cup {<<w>> : w \in SentWrappers(h)}

\* New(msg): an error with a stack, to serve as a cause
SentNew ==
    LET h0 == Append(nodes, PlainNode("errorString", <<"boom">>))
        r == WrapSkipping(h0, captureStacks, hooks, Ref(Len(h0)), <<>>)
    IN  /\ Len(r.h) <= MaxSentNodes
        /\ nodes' = r.h
        /\ last' = Call("New", Len(h0), <<>>, Len(nodes), r.err.id, r.calls)
        /\ UNCHANGED <<threads, verbose, hooks, captureStacks>>

\* Sentinel(msg, ws...) = apply(errors.New(msg), 1, false, false, ws...)
DoSentinel ==
    \E ws \in SentWrapperLists(nodes) :
        LET h0 == Append(nodes, PlainNode("errorString", <<"not found">>))
            r == apply(h0, captureStacks, hooks, Ref(Len(h0)), FALSE, FALSE, ws)
        IN  /\ Len(r.h) <= MaxSentNodes
            /\ nodes' = r.h
            /\ last' = Call("Sentinel", Len(h0), ws, Len(nodes), r.err.id, r.calls)
            /\ UNCHANGED <<threads, verbose, hooks, captureStacks>>

\* Wrap(err)
SentWrap ==
    \E e \in 1..Len(nodes) :
        LET r == WrapSkipping(nodes, captureStacks, hooks, Ref(e), <<>>)
        IN  /\ Len(r.h) <= MaxSentNodes
            /\ nodes' = r.h
            /\ last' = Call("Wrap", e, <<>>, Len(nodes), r.err.id, r.calls)
            /\ UNCHANGED <<threads, verbose, hooks, captureStacks>>

NextSent ==
    \/ SentNew
    \/ DoSentinel
    \/ SentWrap
    \/ AddHooks
    \/ ClearHooks
    \/ SetStackCaptureEnabled

SpecSent == Init /\ [][NextSent]_vars

\* node i is what Sentinel returned: a "not found" error under at most one annotator
IsSentinel(h, i) ==
    /\ h[Terminal(h, i)].value = StrV(<<"not found">>)
    /\ \A a \in Ancestors(h, i) : a = i \/ h[a].kind = "plain"
    /\ ~ChainHasStack(h, i)
    /\ ~(h[i].kind = "value" /\ h[i].key = "color" /\ h[i].value = StrV(<<"red">>))

\* the annotator w shows on the error in node i
Annotated(h, i, w) ==
    CASE w.w = "SetValue" -> Value(h, Ref(i), w.key) = w.value
      [] w.w = "WithCause" -> Cause(h, Ref(i)) = Ref(w.cause)
      [] OTHER -> TRUE

\* the keys the registered hooks set
HookKeys == {hooks[j].key : j \in 1..Len(hooks)}

\* C25: Sentinel applies its annotators, runs no hook and captures no stack
\* (Stack nil, HasStack false) even when capture is enabled; a later Wrap of
\* the sentinel runs the hooks and, capture being enabled, captures a stack of
\* its own, and the wrapped error still Is the sentinel and keeps the
\* sentinel's annotations.
C25_Sentinel ==
    /\ last.op = "Sentinel" =>
           /\ last.calls = 0
           /\ \A j \in 1..Len(last.ws) : Annotated(nodes, last.out, last.ws[j])
           /\ Stack(nodes, Ref(last.out)) = NilV
           /\ ~HasStack(nodes, Ref(last.out))
    /\ (last.op = "Wrap" /\ IsSentinel(nodes, last.in)) =>
           /\ last.calls = Len(hooks)
           /\ StackCaptureEnabled =>
                  (last.out > last.n0 /\ Stack(nodes, Ref(last.out)) = StackV(last.out))
           /\ Is(nodes, Ref(last.out), Ref(last.in))
           /\ \A k \in (Keys \ {errKeyStack}) \ HookKeys :
                  Value(nodes, Ref(last.out), k) = Value(nodes, Ref(last.in), k)
           /\ Cause(nodes, Ref(last.out)) = Cause(nodes, Ref(last.in))

\* the same, for sentinels that were not given a cause
C25_WithoutCause ==
    /\ (last.op = "Sentinel" /\ LatestCause(nodes, last.out) = 0) =>
           /\ last.calls = 0
           /\ \A j \in 1..Len(last.ws) : Annotated(nodes, last.out, last.ws[j])
           /\ Stack(nodes, Ref(last.out)) = NilV
           /\ ~HasStack(nodes, Ref(last.out))
    /\ (last.op = "Wrap" /\ IsSentinel(nodes, last.in) /\ LatestCause(nodes, last.in) = 0) =>
           /\ last.calls = Len(hooks)
           /\ StackCaptureEnabled =>
                  (last.out > last.n0 /\ Stack(nodes, Ref(last.out)) = StackV(last.out))
           /\ Is(nodes, Ref(last.out), Ref(last.in))
           /\ \A k \in (Keys \ {errKeyStack}) \ HookKeys :
                  Value(nodes, Ref(last.out), k) = Value(nodes, Ref(last.in), k)
           /\ Cause(nodes, Ref(last.out)) = Cause(nodes, Ref(last.in))

\* -------------------------------------------------------------------- C26
\* --------------------- Append and Prepend, of the v2 API and of the v1 API
MaxAppNodes == 4

AppMsgs == {<<>>, <<"blog">>}

\* node e (or nil) is an error of the v2 API: no *merryErr in its chain
IsV2(h, e) == \A a \in Ancestors(h, e) : h[a].kind # "merry"

\* node e (or nil) is an error of the v1 API: *merryErr nodes over a plain error
IsV1(h, e) == \A a \in Ancestors(h, e) : h[a].kind \in {"merry", "plain"}

\* errors.New(msg)
AppErrorsNew ==
    \E m \in {<<"a">>, <<"b">>} :
        /\ Len(nodes) < MaxAppNodes
        /\ nodes' = Append(nodes, PlainNode("errorString", m))
        /\ last' = NoCall
        /\ UNCHANGED <<threads, verbose, hooks, captureStacks>>

\* v2: Wrap(err, w) with a code or a cause
AppWrap ==
    \E e \in 1..Len(nodes) :
      \E w \in {SetHTTPCode(404)} \cup {WithCause(c) : c \in {c \in 1..Len(nodes) : IsV2(nodes, c)}} :
        LET r == WrapSkipping(nodes, captureStacks, hooks, Ref(e), <<w>>)
        IN  /\ IsV2(nodes, e)
            /\ Len(r.h) <= MaxAppNodes
            /\ nodes' = r.h
            /\ last' = Call("Wrap", e, <<w>>, Len(nodes), r.err.id, r.calls)
            /\ UNCHANGED <<threads, verbose, hooks, captureStacks>>

\* v2: Append(err, msg) = WrapSkipping(err, 1, AppendMessage(msg))
AppAppend ==
    \E e \in 0..Len(nodes) : \E msg \in AppMsgs :
        LET r == WrapSkipping(nodes, captureStacks, hooks, Ref(e), <<AppendMessage(msg)>>)
        IN  /\ IsV2(nodes, e)
            /\ Len(r.h) <= MaxAppNodes
            /\ nodes' = r.h
            /\ last' = Call("Append", e, <<AppendMessage(msg)>>, Len(nodes), r.err.id, r.calls)
            /\ UNCHANGED <<threads, verbose, hooks, captureStacks>>

\* v2: Prepend(err, msg) = WrapSkipping(err, 1, PrependMessage(msg))
AppPrepend ==
    \E e \in 0..Len(nodes) : \E msg \in AppMsgs :
        LET r == WrapSkipping(nodes, captureStacks, hooks, Ref(e), <<PrependMessage(msg)>>)
        IN  /\ IsV2(nodes, e)
            /\ Len(r.h) <= MaxAppNodes
            /\ nodes' = r.h
            /\ last' = Call("Prepend", e, <<PrependMessage(msg)>>, Len(nodes), r.err.id, r.calls)
            /\ UNCHANGED <<threads, verbose, hooks, captureStacks>>

\* v1: WithHTTPCode(e, code), WithCause(e, cause)
AppV1Annotate ==
    \E e \in 1..Len(nodes) :
      \E op \in {V1Op("WithHTTPCode", <<>>, 404)}
                  \cup {V1Op("WithCause", <<>>, c) : c \in {c \in 1..Len(nodes) : IsV1(nodes, c)}} :
        LET r == V1Function(nodes, captureStacks, e, op)
        IN  /\ IsV1(nodes, e)
            /\ Len(r.h) <= MaxAppNodes
            /\ nodes' = r.h
            /\ last' = Call("V1Annotate", e, <<>>, Len(nodes), r.err, 0)
            /\ UNCHANGED <<threads, verbose, hooks, captureStacks>>

\* v1: Append(e, msg) = WrapSkipping(e, 1).Append(msg)
AppV1Append ==
    \E e \in 0..Len(nodes) : \E msg \in AppMsgs :
        LET r == V1Function(nodes, captureStacks, e, V1Op("Append", msg, 0))
        IN  /\ IsV1(nodes, e)
            /\ Len(r.h) <= MaxAppNodes
            /\ nodes' = r.h
            /\ last' = Call("V1Append", e, <<AppendMessage(msg)>>, Len(nodes), r.err, 0)
            /\ UNCHANGED <<threads, verbose, hooks, captureStacks>>

\* v1: Prepend(e, msg) = WrapSkipping(e, 1).Prepend(msg)
AppV1Prepend ==
    \E e \in 0..Len(nodes) : \E msg \in AppMsgs :
        LET r == V1Function(nodes, captureStacks, e, V1Op("Prepend", msg, 0))
        IN  /\ IsV1(nodes, e)
            /\ Len(r.h) <= MaxAppNodes
            /\ nodes' = r.h
            /\ last' = Call("V1Prepend", e, <<PrependMessage(msg)>>, Len(nodes), r.err, 0)
            /\ UNCHANGED <<threads, verbose, hooks, captureStacks>>

NextApp ==
    \/ AppErrorsNew
    \/ AppWrap
    \/ AppAppend
    \/ AppPrepend
    \/ AppV1Annotate
    \/ AppV1Append
    \/ AppV1Prepend
    \/ SetStackCaptureEnabled

SpecApp == Init /\ [][NextApp]_vars

\* the text the latest Append or Prepend was given
CallMsg == last.ws[1].value.s

\* the v2 result of the latest call keeps what its input had: it Is the input,
\* and has the input's values (other than message and stack) and cause
KeepsV2 ==
    /\ Is(nodes, Ref(last.out), Ref(last.in))
    /\ \A k \in Keys \ {errKeyMessage, errKeyStack} :
           Value(nodes, Ref(last.out), k) = Value(nodes, Ref(last.in), k)
    /\ Cause(nodes, Ref(last.out)) = Cause(nodes, Ref(last.in))

\* the v1 result of the latest call keeps what its input had
KeepsV1 ==
    /\ last.in \in Ancestors(nodes, last.out)
    /\ V1HTTPCode(nodes, last.out) = V1HTTPCode(nodes, last.in)
    /\ V1UserMessage(nodes, last.out) = V1UserMessage(nodes, last.in)
    /\ V1Cause(nodes, last.out) = V1Cause(nodes, last.in)

\* the cause text that Error() of the v1 error e ends in, if any
V1CauseText(h, vb, e) ==
    IF V1Cause(h, e) # 0 /\ V1Error(h, vb, V1Cause(h, e)) # <<>>
    THEN <<": ">> \o V1Error(h, vb, V1Cause(h, e))
    ELSE <<>>

MaxImplNodes == 5

\* &errImpl{err, key, value}
ImplNode(e, k, v) ==
    [kind |-> "impl", typ |-> "errImpl", err |-> e, key |-> k, value |-> v, cause |-> 0]

\* the key/value pairs attached in the errImpl specification; a stored nil included
ImplPairs == {<<"color", StrV(<<"red">>)>>, <<"color", NilV>>, <<"size", StrV(<<"big">>)>>}

ImplKeys == {"color", "size"}

RECURSIVE iterativeValueSearchNoRest(_, _, _)
\* an iterativeValueSearch that loses the error it stopped at
iterativeValueSearchNoRest(h, e, key) ==
    IF h[e].key = key THEN [v |-> h[e].value, ok |-> TRUE, err |-> e]
    ELSE IF h[e].err # 0 /\ h[h[e].err].kind = "impl"
         THEN iterativeValueSearchNoRest(h, h[e].err, key)
    ELSE [v |-> NilV, ok |-> FALSE, err |-> 0]

RECURSIVE iterativeValueSearch(_, _, _)
\* (*errImpl).iterativeValueSearch: the value, whether it was found, and the
\* error to go on with: the first error beneath the run of *errImpl nodes
iterativeValueSearch(h, e, key) ==
    IF h[e].key = key THEN [v |-> h[e].value, ok |-> TRUE, err |-> e]
    ELSE IF h[e].err # 0 /\ h[h[e].err].kind = "impl"
         THEN iterativeValueSearch(h, h[e].err, key)
    ELSE [v |-> NilV, ok |-> FALSE, err |-> h[e].err]

RECURSIVE AsValuer(_, _)
\* internal.As(err, &valuer): the first error of the unwrap chain that has a
\* Value method; assignability is tested before any As method is called
AsValuer(h, err) ==
    IF err = 0 THEN 0
    ELSE IF h[err].kind = "impl" THEN err
    ELSE AsValuer(h, h[err].err)

RECURSIVE ImplValue(_, _, _)
\* (*errImpl).Value, and the package function Value it falls back on
ImplValue(h, e, key) ==
    LET r == iterativeValueSearch(h, e, key)
    IN  IF r.ok THEN r.v
        ELSE LET valuer == AsValuer(h, r.err)
             IN  IF valuer # 0 THEN ImplValue(h, valuer, key) ELSE NilV

\* Value(err, key) of the package
PkgValue(h, err, key) ==
    LET valuer == AsValuer(h, err)
    IN  IF valuer # 0 THEN ImplValue(h, valuer, key) ELSE NilV

\* errors.New(msg)
ImplErrorsNew ==
    /\ Len(nodes) < MaxImplNodes
    /\ nodes' = Append(nodes, PlainNode("errorString", <<"boom">>))
    /\ last' = NoCall
    /\ UNCHANGED <<threads, verbose, hooks, captureStacks>>

\* &UnwrapperError{err}
ImplUnwrapper ==
    \E e \in 1..Len(nodes) :
        /\ Len(nodes) < MaxImplNodes
        /\ nodes' = Append(nodes, ForeignNode(e))
        /\ last' = NoCall
        /\ UNCHANGED <<threads, verbose, hooks, captureStacks>>

\* Set(err, key, value) = &errImpl{err, key, value}
ImplSet ==
    \E e \in 1..Len(nodes) : \E p \in ImplPairs :
        /\ Len(nodes) < MaxImplNodes
        /\ nodes' = Append(nodes, ImplNode(e, p[1], p[2]))
        /\ last' = NoCall
        /\ UNCHANGED <<threads, verbose, hooks, captureStacks>>

\* Value(err, key); the call and its result are kept in last
ImplQuery ==
    \E e \in 1..Len(nodes) : \E k \in ImplKeys :
        /\ last' = [NoCall EXCEPT !.op = "Value", !.in = e,
                                  !.ws = <<SetValue(k, PkgValue(nodes, e, k))>>]
        /\ UNCHANGED <<threads, verbose, nodes, hooks, captureStacks>>

NextImpl ==
    \/ ImplErrorsNew
    \/ ImplUnwrapper
    \/ ImplSet
    \/ ImplQuery

SpecImpl == Init /\ [][NextImpl]_vars

RECURSIVE LinearWalk(_, _, _)
\* one nearest-first walk over the whole unwrap chain of node i
LinearWalk(h, i, key) ==
    IF i = 0 THEN NilV
    ELSE IF h[i].kind = "impl" /\ h[i].key = key THEN h[i].value
    ELSE LinearWalk(h, h[i].err, key)

\* C27: for every chain of *errImpl nodes and foreign errors that only have
\* Unwrap, and every key, the method Value of an *errImpl (the fast path over
\* the run of *errImpl nodes, then the package Value from the first foreign
\* error) and the package Value return the value of the nearest node of the
\* whole unwrap chain that has the key, nil if there is none.
C27_TwoPhaseSearch ==
    /\ \A e \in Ids : \A k \in ImplKeys :
           /\ PkgValue(nodes, e, k) = LinearWalk(nodes, e, k)
           /\ nodes[e].kind = "impl" => ImplValue(nodes, e, k) = LinearWalk(nodes, e, k)
    /\ last.op = "Value" =>
           last.ws[1].value = LinearWalk(nodes, last.in, last.ws[1].key)

\* a lookup that went through a run of two *errImpl nodes, then a foreign
\* error, and found the key in an *errImpl beneath it, under a nearer one
C27_Witness ==
    /\ last.op = "Value" /\ last.ws[1].key = "color" /\ last.ws[1].value = StrV(<<"red">>)
    /\ LET e == last.in
       IN  /\ nodes[e].kind = "impl" /\ nodes[e].key = "size"
           /\ nodes[nodes[e].err].kind = "impl" /\ nodes[nodes[e].err].key = "size"
           /\ nodes[nodes[nodes[e].err].err].kind = "foreign"
           /\ nodes[nodes[nodes[nodes[e].err].err].err].kind = "impl"

\* -------------------------------------------------------------------- C28
\* the nodes that the nodes of S link to, over wrapped links and cause links
Links(h, S) == ({h[j].err : j \in S} \cup {h[j].cause : j \in S}) \ {0}

RECURSIVE ReachWithin(_, _, _)
\* the nodes reached from the set S in at most n further steps
ReachWithin(h, S, n) ==
    IF n = 0 THEN S ELSE S \cup ReachWithin(h, Links(h, S), n - 1)

\* the nodes reached from node i in one step or more
Reach(h, i) == ReachWithin(h, Links(h, {i}), Len(h))

RECURSIVE StepsToPlain(_, _, _)
\* following wrapped links from node i ends in a plain error within n steps
StepsToPlain(h, i, n) ==
    IF i = 0 THEN FALSE
    ELSE IF h[i].kind = "plain" THEN h[i].err = 0
    ELSE IF n = 0 THEN FALSE
    ELSE StepsToPlain(h, h[i].err, n - 1)

\* C28: in every reachable state each annotation node wraps exactly one
\* non-nil error, following wrapped links from any node reaches a plain
\* terminal error within as many steps as there are nodes, and no node is
\* reachable from itself over wrapped links and cause links.
C28_WellFormed ==
    \A i \in Ids :
        /\ nodes[i].kind \in {"value", "cause"} => nodes[i].err \in Ids
        /\ nodes[i].kind = "cause" => nodes[i].cause \in Ids
        /\ StepsToPlain(nodes, i, Len(nodes))
        /\ i \notin Reach(nodes, i)

\* an annotation over a cause node over a foreign error over a plain error,
\* the cause being an error of the same heap
C28_Witness ==
    \E i \in Ids :
        /\ nodes[i].kind = "value"
        /\ nodes[nodes[i].err].kind = "cause"
        /\ nodes[nodes[nodes[i].err].err].kind = "foreign"
        /\ nodes[Terminal(nodes, i)].kind = "plain"
        /\ Reach(nodes, i) = Ids \ {i}

\* -------------------------------------------------------------------- C29
\* the stack of the primary chain of node i: the value of the nearest stack
\* annotation over wrapped links, if it holds frames
PrimaryStack(h, i) ==
    LET n == Nearest(h, i, errKeyStack)
    IN  IF n # 0 /\ h[n].value.t = "stack" THEN h[n].value ELSE NilV

\* C29: HasStack(err) and Stack(err) consider only the primary chain of err:
\* HasStack holds exactly when the primary chain has a stack annotation and
\* Stack is the primary chain's stack, never one found only in the cause; so
\* after Wrap/New with capture enabled the primary chain of the result has a
\* stack annotation, also when only the attached cause carried one.
C29_StackIgnoresCause ==
    /\ \A i \in Ids :
           /\ HasStack(nodes, Ref(i)) <=> ChainHasStack(nodes, i)
           /\ Stack(nodes, Ref(i)) = PrimaryStack(nodes, i)
    /\ (last.op \in {"Wrap", "New"} /\ last.in > 0 /\ StackCaptureEnabled) =>
           ChainHasStack(nodes, last.out)

\* -------------------------------------------------------------------- C30
\* the wrappers ws leave stack capture alone
NoStackWrapper(ws) == \A j \in 1..Len(ws) : ws[j] \notin {NoCaptureStack, ForceCaptureStack, CaptureStack}

\* C30: an error created or wrapped while capture is disabled has no stack
\* annotation and HasStack is false for it; a Wrap of an error without a
\* stack annotation, made once capture is enabled again, attaches a stack of
\* its own; after NoCaptureStack no later Wrap captures.
C30_DeferredCapture ==
    /\ (last.op \in {"Wrap", "New"} /\ last.in > 0 /\ ~StackCaptureEnabled
          /\ NoStackWrapper(last.ws) /\ ~ChainHasStack(nodes, last.in)) =>
           /\ ~ChainHasStack(nodes, last.out)
           /\ ~HasStack(nodes, Ref(last.out))
           /\ Stack(nodes, Ref(last.out)) = NilV
    /\ (last.op = "Wrap" /\ StackCaptureEnabled /\ NoStackWrapper(last.ws)
          /\ ~ChainHasStack(nodes, last.in)) =>
           /\ last.out > last.n0
           /\ nodes[last.out].key = errKeyStack
           /\ Stack(nodes, Ref(last.out)) = StackV(last.out)
    /\ (last.op = "Wrap" /\ NoStackWrapper(last.ws) /\ Suppressed(nodes, last.in)) =>
           /\ \A i \in (last.n0 + 1)..Len(nodes) : nodes[i].key # errKeyStack
           /\ Stack(nodes, Ref(last.out)) = NilV

\* the same, when neither the call nor its input involves a cause
C30_WithoutCause ==
    (last.in > 0 /\ LatestCause(nodes, last.out) = 0) => C30_DeferredCapture

====
